---- MODULE Spec2Model ----
(***************************************************************************)
(* A model of Clibpe (src/PECore/libpe.cpp): the PE loader, its address    *)
(* arithmetic, the header parsers and the per-directory parsers, and the   *)
(* accessors over the resulting Model.                                     *)
(*                                                                         *)
(* Numbers.  TLC's integers are 32-bit signed, so a DWORD, a ULONGLONG or  *)
(* a pointer is held as a pair <<h, l>> standing for h * 2^16 + l with     *)
(* 0 <= l < 2^16.  A DWORD has 0 <= h < 2^16; a 64-bit quantity keeps a    *)
(* signed h, a negative h standing for the value wrapped modulo 2^64.      *)
(* Pointers are absolute addresses; the build (x86 or x64) fixes whether   *)
(* they wrap modulo 2^32.                                                  *)
(*                                                                         *)
(* Files.  A file is [size, mem]: mem maps the offsets of its non-zero     *)
(* bytes to their values, every other byte below size being 0.            *)
(***************************************************************************)
EXTENDS Integers, Sequences, FiniteSets, TLC

VARIABLES
    win64,            \* the build: TRUE for x64 (_WIN64), FALSE for x86
    m_ptr,            \* the mapped view owned by the Model: a file, or NoFile
    m_fLoaded,
    m_spnData,        \* the span handed to LoadPe: a file, or NoFile
    m_pNTHeader32,    \* pointers into the image (absolute addresses)
    m_pNTHeader64,
    m_stFileInfo,
    m_rec,            \* the records kept for client code (m_stMSDOSHeader .. m_stCOR20Desc)
    lastLoad,         \* the last LoadPe(span): its buffer, its result, Clear since
    oobRead,          \* the last LoadPe read bytes outside the buffer it was given
    crashed,          \* a read outside the buffer faulted: the process is gone
    flat              \* what the client's calls of FlatResources returned since the last load

vars == <<win64, m_ptr, m_fLoaded, m_spnData, m_pNTHeader32, m_pNTHeader64,
          m_stFileInfo, m_rec, lastLoad, oobRead, crashed, flat>>

----------------------------------------------------------------------------
(* Fixed-width arithmetic on pairs <<h, l>>.                               *)

W8  == 16 * 16
W16 == W8 * W8

Num(n)      == <<n \div W16, n % W16>>
Zero        == <<0, 0>>
BAdd(a, b)  == LET s == a[2] + b[2] IN <<a[1] + b[1] + (s \div W16), s % W16>>
BSub(a, b)  == LET s == a[2] - b[2] IN <<a[1] - b[1] + (s \div W16), s % W16>>
BLt(a, b)   == a[1] < b[1] \/ (a[1] = b[1] /\ a[2] < b[2])
BLe(a, b)   == a = b \/ BLt(a, b)
\* static_cast<DWORD>: the low 32 bits
D32(a)      == <<a[1] % W16, a[2]>>
\* a signed 32-bit value (LONG) from its DWORD bits
S32(a)      == IF a[1] >= W16 \div 2 THEN <<a[1] - W16, a[2]>> ELSE a
\* unsigned comparison of 64-bit quantities: a negative h is a wrapped, huge value
ULt(a, b)   == IF (a[1] < 0) = (b[1] < 0) THEN BLt(a, b) ELSE b[1] < 0
ULe(a, b)   == a = b \/ ULt(a, b)
\* the value as a TLC integer, for quantities known to be small
Small(a)    == a[1] * W16 + a[2]

\* DWORD arithmetic wraps modulo 2^32
DAdd(a, b)  == D32(BAdd(a, b))
DSub(a, b)  == D32(BSub(a, b))

----------------------------------------------------------------------------
(* Files and the bytes of memory.                                          *)

\* a file: its size, its bytes mem where they are not zero, and a run of len
\* bytes from offset at on that repeats the bytes pat
NoFill == [at |-> 0, len |-> 0, pat |-> <<>>]
NoFile == [size |-> 0, mem |-> <<>>, id |-> <<"none", 0>>, fill |-> NoFill]

MemByte(f, o) ==
    IF o >= f.fill.at /\ o < f.fill.at + f.fill.len
    THEN f.fill.pat[((o - f.fill.at) % Len(f.fill.pat)) + 1]
    ELSE IF o \in DOMAIN f.mem THEN f.mem[o] ELSE 0

\* little-endian encodings, as functions from offsets to bytes
PutB(o, b)  == o :> b
PutW(o, w)  == (o :> (w % W8)) @@ ((o + 1) :> (w \div W8))
PutD(o, d)  == PutW(o, d[2]) @@ PutW(o + 2, d[1])
PutS(o, s)  == [i \in o .. (o + Len(s) - 1) |-> s[i - o + 1]]

----------------------------------------------------------------------------
(* The memory a load works on.  cx is                                      *)
(*   win64  the build,                                                     *)
(*   base   GetBaseAddr(): the address of the mapped view m_ptr, 0 if none,*)
(*   mapped, map   a view is mapped at base, and the file it shows,        *)
(*   data   the span m_spnData,                                            *)
(*   same   the span is the mapped view (LoadPe(LPCWSTR)),                 *)
(*   wild   the byte a read outside every buffer yields.                   *)

\* where MapViewOfFile places a view: one representative address per build
MapBase64 == <<418 * W16, 0>>
MapBase32 == <<162, 0>>

\* Clibpe::GetBaseAddr
GetBaseAddr(cx) == cx.base

\* Clibpe::GetDataSize
GetDataSize(cx) == cx.data.size

\* DWORD_PTR arithmetic: 32 bits wide on x86, 64 on x64
PNorm(cx, a)   == IF cx.win64 THEN a ELSE D32(a)
PAdd(cx, a, b) == PNorm(cx, BAdd(a, b))
PSub(cx, a, b) == PNorm(cx, BSub(a, b))
PAddN(cx, a, n) == PAdd(cx, a, Num(n))

\* the byte at absolute address a, read through a pointer derived from base
RdB(cx, a) ==
    LET r == BSub(a, cx.base)
    IN  IF cx.mapped /\ r[1] = 0 /\ r[2] < cx.map.size
        THEN MemByte(cx.map, r[2])
        ELSE cx.wild
RdW(cx, a) == RdB(cx, a) + W8 * RdB(cx, PAddN(cx, a, 1))
RdD(cx, a) == <<RdW(cx, PAddN(cx, a, 2)), RdW(cx, a)>>

\* the n bytes at address a lie inside the buffer given to LoadPe
InBuf(cx, a, n) ==
    LET r == BSub(a, cx.base)
    IN  cx.same /\ r[1] = 0 /\ r[2] + n <= cx.data.size

\* Clibpe::GetDosPtr: the DOS header is read from the span itself
DosMagic(cx)  == MemByte(cx.data, 0) + W8 * MemByte(cx.data, 1)
DosLfanew(cx) ==
    S32(<<MemByte(cx.data, 62) + W8 * MemByte(cx.data, 63),
          MemByte(cx.data, 60) + W8 * MemByte(cx.data, 61)>>)

\* Clibpe::IsPtrSafe
IsPtrSafe(cx, dwAddr, fCanReferenceBoundary) ==
    LET ullMaxAddr == BAdd(GetBaseAddr(cx), Num(GetDataSize(cx)))
    IN  IF dwAddr = Zero THEN FALSE
        ELSE IF fCanReferenceBoundary
             THEN ULe(dwAddr, ullMaxAddr) /\ ULe(GetBaseAddr(cx), dwAddr)
             ELSE ULt(dwAddr, ullMaxAddr) /\ ULe(GetBaseAddr(cx), dwAddr)

\* Clibpe::PtrToOffset
PtrToOffset(cx, lp) ==
    IF lp = Zero THEN Zero ELSE D32(BSub(lp, GetBaseAddr(cx)))

----------------------------------------------------------------------------
(* The Model's members.  A parser takes and returns st:                    *)
(*   fi    m_stFileInfo,   nt32, nt64   m_pNTHeader32, m_pNTHeader64,      *)
(*   rec   the records,    oob   some read left the buffer,                *)
(*   hang  a loop never ends,   ub   a call with undefined behaviour.      *)

FlagNames ==
    {"IsPE32", "IsPE64", "HasDosHdr", "HasRichHdr", "HasNTHdr", "HasDataDirs",
     "HasSections", "HasExport", "HasImport", "HasResource", "HasException",
     "HasSecurity", "HasReloc", "HasDebug", "HasArchitect", "HasGlobalPtr",
     "HasTLS", "HasLoadCFG", "HasBoundImp", "HasIAT", "HasDelayImp", "HasCOMDescr"}

\* PEFILEINFO{ }
NoFileInfo == [n \in FlagNames |-> FALSE]

\* the client records, value-initialised
NoRecords ==
    [dos      |-> [e_magic |-> 0, e_lfanew |-> Zero],
     rich     |-> <<>>,
     nt       |-> [dwOffset |-> Zero, variant |-> "none", NumberOfSections |-> 0],
     dataDirs |-> <<>>,
     secs     |-> <<>>,
     export   |-> [dwOffset |-> Zero, set |-> FALSE, NumberOfFunctions |-> Zero,
                   AddressOfFunctions |-> Zero,
                   strModuleName |-> <<>>, vecFuncs |-> <<>>],
     import   |-> <<>>,
     resource |-> [dwOffset |-> Zero, set |-> FALSE, n |-> 0, ents |-> <<>>],
     exception |-> <<>>,
     security |-> <<>>,
     relocs   |-> <<>>,
     debug    |-> <<>>,
     tls      |-> [dwOffset |-> Zero, set |-> FALSE, vecTLSCallbacks |-> <<>>],
     lcd      |-> [dwOffset |-> Zero, set |-> FALSE],
     boundImp |-> <<>>,
     delayImp |-> <<>>,
     cor20    |-> [dwOffset |-> Zero, set |-> FALSE]]

SetFlag(st, n) == [st EXCEPT !.fi[n] = TRUE]
SetRec(st, n, v) == [st EXCEPT !.rec[n] = v]
Push(st, n, v) == [st EXCEPT !.rec[n] = Append(@, v)]
\* a read of n bytes at address a: remembered when it leaves the buffer
Touch(cx, st, a, n) == [st EXCEPT !.oob = @ \/ ~InBuf(cx, a, n)]

----------------------------------------------------------------------------
(* Header parsers.                                                         *)

RECURSIVE XorBits(_, _, _)
XorBits(a, b, n) ==
    IF n = 0 THEN 0
    ELSE ((a + b) % 2) + 2 * XorBits(a \div 2, b \div 2, n - 1)
\* DWORD ^ DWORD
DXor(a, b) == <<XorBits(a[1], b[1], 16), XorBits(a[2], b[2], 16)>>

IMAGE_DOS_SIGNATURE == 23117             \* 0x5A4D, "MZ"
SizeofDosHeader     == 64                \* sizeof(IMAGE_DOS_HEADER)
RichSign == <<26723, 26962>>             \* 0x68636952, "Rich"
DanSSign == <<21358, 24900>>             \* 0x536E6144, "DanS"
RichStart == 128                         \* 0x80
RichFirst == 144                         \* 0x90

\* Clibpe::ParseMSDOSHeader
ParseMSDOSHeader(cx, st) ==
    IF DosMagic(cx) # IMAGE_DOS_SIGNATURE
    THEN [ret |-> FALSE, st |-> st]
    ELSE [ret |-> TRUE,
          st  |-> SetFlag(SetRec(st, "dos", [e_magic  |-> DosMagic(cx),
                                             e_lfanew |-> DosLfanew(cx)]),
                          "HasDosHdr")]

\* Clibpe::ParseRichHeader
RichEntries(cx, mask, n) ==
    [j \in 1 .. n |->
        LET p  == PAddN(cx, GetBaseAddr(cx), RichFirst + 8 * (j - 1))
            d0 == DXor(mask, RdD(cx, p))
        IN  [dwOffset |-> D32(BSub(p, GetBaseAddr(cx))),
             wId      |-> d0[1],      \* HIWORD
             wVersion |-> d0[2],      \* LOWORD
             dwCount  |-> DXor(mask, RdD(cx, PAddN(cx, p, 4)))]]

ParseRichHeader(cx, st) ==
    LET ullBaseAddr == GetBaseAddr(cx)
        e_lfanew    == DosLfanew(cx)
    IN  IF BLe(e_lfanew, Num(RichStart))
           \/ ~IsPtrSafe(cx, PAdd(cx, ullBaseAddr, e_lfanew), FALSE)
        THEN st
        ELSE
        LET pRichStartVA == PAddN(cx, ullBaseAddr, RichStart)
            n        == (Small(e_lfanew) - RichStart) \div 4
            It(i)    == PAddN(cx, pRichStartVA, 4 * i)
            IsRich(i) == RdD(cx, It(i)) = RichSign
            Match(i) == /\ IsRich(i)
                        /\ DXor(RdD(cx, pRichStartVA), RdD(cx, PAddN(cx, It(i), 4))) = DanSSign
                        /\ BLe(PAddN(cx, ullBaseAddr, RichFirst), It(i))
            hits     == {i \in 0 .. n - 1 : Match(i)}
            last     == IF hits = {} THEN n - 1
                        ELSE CHOOSE i \in hits : \A k \in hits : i <= k
            \* every iteration up to the hit reads *pRichIter; one that finds
            \* "Rich" also reads *pRichStartVA and *(pRichIter + 1)
            leaves   == \E i \in 0 .. last :
                            \/ ~InBuf(cx, It(i), 4)
                            \/ IsRich(i) /\ (~InBuf(cx, pRichStartVA, 4)
                                             \/ ~InBuf(cx, PAddN(cx, It(i), 4), 4))
            st1      == [st EXCEPT !.oob = @ \/ leaves]
        IN  IF hits = {} THEN st1
            ELSE
            LET dwRichSize == (4 * last + RichStart - RichFirst) \div 8
                mask       == RdD(cx, PAddN(cx, It(last), 4))
                ents       == RichEntries(cx, mask, dwRichSize)
            IN  SetFlag([st1 EXCEPT !.rec.rich = @ \o ents], "HasRichHdr")

IMAGE_NT_SIGNATURE            == <<0, 17744>>   \* 0x00004550, "PE\0\0"
IMAGE_NT_OPTIONAL_HDR32_MAGIC == 267            \* 0x10B
IMAGE_NT_OPTIONAL_HDR64_MAGIC == 523            \* 0x20B
SizeofNtHeaders32  == 248    \* sizeof(IMAGE_NT_HEADERS32)
SizeofNtHeaders64  == 264    \* sizeof(IMAGE_NT_HEADERS64)
SizeofSectionHeader == 40    \* sizeof(IMAGE_SECTION_HEADER)
OffNumberOfSections == 6     \* FileHeader.NumberOfSections
OffSymbolTable      == 12    \* FileHeader.PointerToSymbolTable
OffNumberOfSymbols  == 16    \* FileHeader.NumberOfSymbols
OffSizeOfOptHeader  == 20    \* FileHeader.SizeOfOptionalHeader
OffOptionalHeader   == 24    \* offsetof(IMAGE_NT_HEADERS, OptionalHeader)
OffNumRvaAndSizes32 == 116   \* OptionalHeader.NumberOfRvaAndSizes, PE32
OffNumRvaAndSizes64 == 132   \* the same, PE32+
OffDataDirectory32  == 120   \* OptionalHeader.DataDirectory, PE32
OffDataDirectory64  == 136   \* the same, PE32+
OffSecVirtualSize   == 8     \* IMAGE_SECTION_HEADER.Misc.VirtualSize
OffSecVirtualAddress == 12   \* IMAGE_SECTION_HEADER.VirtualAddress
OffSecPointerToRawData == 20 \* IMAGE_SECTION_HEADER.PointerToRawData

\* Clibpe::ParseNTFileOptHeader
ParseNTFileOptHeader(cx, st) ==
    LET pNTHeader == PAdd(cx, GetBaseAddr(cx), DosLfanew(cx))
    IN  IF ~IsPtrSafe(cx, PAddN(cx, pNTHeader, SizeofNtHeaders32), FALSE)
        THEN [ret |-> FALSE, st |-> st]
        ELSE
        LET st1 == Touch(cx, st, pNTHeader, 4)
        IN  IF RdD(cx, pNTHeader) # IMAGE_NT_SIGNATURE
            THEN [ret |-> FALSE, st |-> st1]
            ELSE
            LET st2   == Touch(cx, st1, PAddN(cx, pNTHeader, OffOptionalHeader), 2)
                magic == RdW(cx, PAddN(cx, pNTHeader, OffOptionalHeader))
                nsec  == RdW(cx, PAddN(cx, pNTHeader, OffNumberOfSections))
            IN  CASE magic = IMAGE_NT_OPTIONAL_HDR32_MAGIC ->
                       [ret |-> TRUE,
                        st  |-> SetFlag(SetFlag(
                                  [Touch(cx, st2, pNTHeader, SizeofNtHeaders32)
                                     EXCEPT !.nt32 = pNTHeader,
                                            !.rec.nt = [dwOffset |-> PtrToOffset(cx, pNTHeader),
                                                        variant |-> "PE32",
                                                        NumberOfSections |-> nsec]],
                                  "IsPE32"), "HasNTHdr")]
                  [] magic = IMAGE_NT_OPTIONAL_HDR64_MAGIC ->
                       [ret |-> TRUE,
                        st  |-> SetFlag(SetFlag(
                                  [Touch(cx, st2, pNTHeader, SizeofNtHeaders64)
                                     EXCEPT !.nt64 = pNTHeader,
                                            !.rec.nt = [dwOffset |-> PtrToOffset(cx, pNTHeader),
                                                        variant |-> "PE32+",
                                                        NumberOfSections |-> nsec]],
                                  "IsPE64"), "HasNTHdr")]
                  [] OTHER -> [ret |-> FALSE, st |-> st2]

\* the NT headers the typed accessors go through: m_pNTHeader32 or m_pNTHeader64
HasNt32(st) == st.fi["IsPE32"] /\ st.fi["HasNTHdr"]
HasNt64(st) == st.fi["IsPE64"] /\ st.fi["HasNTHdr"]
NtPtr(st)   == IF st.fi["IsPE32"] THEN st.nt32 ELSE st.nt64

\* IMAGE_FIRST_SECTION, FileHeader.NumberOfSections
FirstSection(cx, nt) ==
    PAddN(cx, nt, OffOptionalHeader + RdW(cx, PAddN(cx, nt, OffSizeOfOptHeader)))
NumberOfSections(cx, nt) == RdW(cx, PAddN(cx, nt, OffNumberOfSections))

\* Clibpe::GetDirEntryRVA, Clibpe::GetDirEntrySize
DirEntryPtr(cx, st, dwEntry) ==
    PAddN(cx, NtPtr(st),
          (IF st.fi["IsPE32"] THEN OffDataDirectory32 ELSE OffDataDirectory64) + 8 * dwEntry)
GetDirEntryRVA(cx, st, dwEntry) ==
    IF ~st.fi["HasNTHdr"] THEN Zero
    ELSE IF st.fi["IsPE32"] \/ st.fi["IsPE64"] THEN RdD(cx, DirEntryPtr(cx, st, dwEntry))
    ELSE Zero
GetDirEntrySize(cx, st, dwEntry) ==
    IF ~st.fi["HasNTHdr"] THEN Zero
    ELSE IF st.fi["IsPE32"] \/ st.fi["IsPE64"]
         THEN RdD(cx, PAddN(cx, DirEntryPtr(cx, st, dwEntry), 4))
    ELSE Zero
\* the read GetDirEntryRVA / GetDirEntrySize makes
TouchDir(cx, st, dwEntry) ==
    IF st.fi["HasNTHdr"] /\ (st.fi["IsPE32"] \/ st.fi["IsPE64"])
    THEN Touch(cx, st, DirEntryPtr(cx, st, dwEntry), 8)
    ELSE st

\* "Is RVA within this section?": the bound is a DWORD sum, the comparison 64-bit
RvaInSection(ullRVA, va, vsize) == ULe(va, ullRVA) /\ ULt(ullRVA, DAdd(va, vsize))

\* Clibpe::GetSecHdrFromRVA.  Every header it reads starts at or after
\* m_pNTHeader and ends below the end of the buffer (IsPtrSafe), so its reads
\* leave the buffer only where ParseNTFileOptHeader's own read did.
RECURSIVE SecHdrWalk(_, _, _, _, _)
SecHdrWalk(cx, pSecHdr, i, n, ullRVA) ==
    IF i >= n THEN Zero
    ELSE IF ~IsPtrSafe(cx, PAddN(cx, pSecHdr, SizeofSectionHeader), FALSE) THEN Zero
    ELSE IF RvaInSection(ullRVA, RdD(cx, PAddN(cx, pSecHdr, OffSecVirtualAddress)),
                         RdD(cx, PAddN(cx, pSecHdr, OffSecVirtualSize)))
         THEN pSecHdr
    ELSE SecHdrWalk(cx, PAddN(cx, pSecHdr, SizeofSectionHeader), i + 1, n, ullRVA)

GetSecHdrFromRVA(cx, st, ullRVA) ==
    IF HasNt32(st) \/ HasNt64(st)
    THEN SecHdrWalk(cx, FirstSection(cx, NtPtr(st)), 0,
                    NumberOfSections(cx, NtPtr(st)), ullRVA)
    ELSE Zero

\* Clibpe::RVAToPtr
RVAToPtr(cx, st, ullRVA) ==
    LET Checked(ptr) == IF IsPtrSafe(cx, ptr, TRUE) THEN ptr ELSE Zero
        In(pSecHdr) ==
            IF pSecHdr = Zero THEN Zero
            ELSE Checked(PSub(cx, BAdd(GetBaseAddr(cx), ullRVA),
                              DSub(RdD(cx, PAddN(cx, pSecHdr, OffSecVirtualAddress)),
                                   RdD(cx, PAddN(cx, pSecHdr, OffSecPointerToRawData)))))
    IN  In(GetSecHdrFromRVA(cx, st, ullRVA))

\* Clibpe::RVAToOffset, over the parsed section headers secs (m_vecSecHeaders)
RECURSIVE RVAToOffsetFrom(_, _, _, _, _)
RVAToOffsetFrom(secs, i, size, ullRVA, dwOffset) ==
    IF i > Len(secs) THEN dwOffset
    ELSE
    LET h == secs[i]
    IN  IF RvaInSection(ullRVA, h.VirtualAddress, h.VirtualSize)
        THEN LET o == DSub(D32(ullRVA), DSub(h.VirtualAddress, h.PointerToRawData))
             IN  RVAToOffsetFrom(secs, i + 1, size, ullRVA,
                                 IF BLt(D32(Num(size)), o) THEN Zero ELSE o)
        ELSE RVAToOffsetFrom(secs, i + 1, size, ullRVA, dwOffset)
RVAToOffset(secs, size, ullRVA) == RVAToOffsetFrom(secs, 1, size, ullRVA, Zero)

\* the n raw bytes at address a
Bytes(cx, a, n) == [k \in 1 .. n |-> RdB(cx, PAddN(cx, a, k - 1))]

\* the bytes of s before its first NUL
RECURSIVE UpToNul(_)
UpToNul(s) == IF s = <<>> \/ Head(s) = 0 THEN <<>> ELSE <<Head(s)>> \o UpToNul(Tail(s))

\* std::string(const char*): the bytes from address a up to a NUL.  A string
\* that runs off the mapped bytes is cut there, and the read marked (off).
RECURSIVE CStrFrom(_, _, _)
CStrFrom(cx, a, acc) ==
    LET r == BSub(a, cx.base)
    IN  IF ~(cx.mapped /\ r[1] = 0 /\ r[2] < cx.map.size)
        THEN [str |-> acc, len |-> Len(acc) + 1, off |-> TRUE]
        ELSE IF RdB(cx, a) = 0
             THEN [str |-> acc, len |-> Len(acc) + 1, off |-> FALSE]
             ELSE CStrFrom(cx, PAddN(cx, a, 1), Append(acc, RdB(cx, a)))
CStr(cx, a) == CStrFrom(cx, a, <<>>)

IsSpace(c) == c \in 9 .. 13 \/ c = 32
IsDigit(c) == c \in 48 .. 57
LONG_MAX   == 2147483647

\* strtol(p, &pEnd, 10) on the bytes at address a:
\*   conv   digits were converted (pEnd # pStart),
\*   erange the value does not fit a long,
\*   val    the value,  len  the bytes examined.
RECURSIVE StrtolDigits(_, _, _, _, _, _)
StrtolDigits(cx, a, k, neg, acc, st) ==
    LET c == RdB(cx, PAddN(cx, a, k))
    IN  IF ~IsDigit(c) \/ k > cx.data.size
        THEN [conv |-> st.conv, erange |-> st.erange,
              val |-> IF neg THEN 0 - acc ELSE acc, len |-> k + 1]
        ELSE
        LET d    == c - 48
            over == st.erange \/ acc > (LONG_MAX - d) \div 10
        IN  StrtolDigits(cx, a, k + 1, neg, IF over THEN 0 ELSE acc * 10 + d,
                         [conv |-> TRUE, erange |-> over])
RECURSIVE StrtolSkip(_, _, _)
StrtolSkip(cx, a, k) ==
    LET c == RdB(cx, PAddN(cx, a, k))
    IN  IF IsSpace(c) /\ k <= cx.data.size THEN StrtolSkip(cx, a, k + 1)
        ELSE IF c = 45 THEN StrtolDigits(cx, a, k + 1, TRUE, 0, [conv |-> FALSE, erange |-> FALSE])
        ELSE IF c = 43 THEN StrtolDigits(cx, a, k + 1, FALSE, 0, [conv |-> FALSE, erange |-> FALSE])
        ELSE StrtolDigits(cx, a, k, FALSE, 0, [conv |-> FALSE, erange |-> FALSE])
Strtol(cx, a) == StrtolSkip(cx, a, 0)

\* a DWORD times a small factor, 64 bits wide
BMulN(a, k) == LET l == a[2] * k IN <<a[1] * k + (l \div W16), l % W16>>

SizeofSymbol == 18           \* "Each symbol in Symbol Table occupies exactly 18 bytes"
MaxDataDirs  == 15

\* Clibpe::ParseDataDirectories
DataDirEntry(cx, st, i) ==
    LET Name(pSecHdr) ==
            IF pSecHdr # Zero /\ i # 4
            THEN Bytes(cx, pSecHdr, 8) ELSE <<>>
        Entry(va, size) ==
            [VirtualAddress |-> va, Size |-> size,
             SecName |-> Name(GetSecHdrFromRVA(cx, st, va))]
    IN  Entry(RdD(cx, DirEntryPtr(cx, st, i)), RdD(cx, PAddN(cx, DirEntryPtr(cx, st, i), 4)))

ParseDataDirectories(cx, st) ==
    IF ~(HasNt32(st) \/ HasNt64(st)) THEN st
    ELSE
    LET pNum == PAddN(cx, NtPtr(st), IF st.fi["IsPE32"] THEN OffNumRvaAndSizes32
                                                          ELSE OffNumRvaAndSizes64)
        Done(st1) == IF st1.rec.dataDirs = <<>> THEN st1 ELSE SetFlag(st1, "HasDataDirs")
        Dirs(n) ==
            Done([st EXCEPT
                    !.oob = @ \/ ~InBuf(cx, pNum, 4)
                              \/ \E i \in 0 .. n - 1 : ~InBuf(cx, DirEntryPtr(cx, st, i), 8),
                    !.rec.dataDirs = @ \o [i \in 1 .. n |-> DataDirEntry(cx, st, i - 1)]])
        Count(dwRVAAndSizes) ==
            Dirs(IF BLt(Num(MaxDataDirs), dwRVAAndSizes) THEN MaxDataDirs
                 ELSE Small(dwRVAAndSizes))
    IN  Count(RdD(cx, pNum))

\* Clibpe::ParseSectionsHeaders: the name of one header, or skip ("continue")
SectionRealName(cx, st, pSecHdr) ==
    LET nt     == NtPtr(st)
        pStart == PAddN(cx, pSecHdr, 1)
        Long(c, lpsz, oobT) ==
            [skip |-> FALSE, name |-> c.str,
             oob |-> oobT \/ c.off \/ ~InBuf(cx, lpsz, c.len)]
        Named(lpsz, oobT) ==
            IF IsPtrSafe(cx, lpsz, FALSE)
            THEN Long(CStr(cx, lpsz), lpsz, oobT)
            ELSE [skip |-> FALSE, name |-> <<>>, oob |-> oobT]
        Slash(t) ==
            IF ~t.conv \/ t.erange
            THEN [skip |-> TRUE, name |-> <<>>, oob |-> ~InBuf(cx, pStart, t.len)]
            ELSE Named(PAdd(cx, PAdd(cx, PAdd(cx, GetBaseAddr(cx),
                                RdD(cx, PAddN(cx, nt, OffSymbolTable))),
                                BMulN(RdD(cx, PAddN(cx, nt, OffNumberOfSymbols)), SizeofSymbol)),
                            Num(t.val)),
                       ~InBuf(cx, pStart, t.len))
        Short(name) ==
            IF name[1] = 47     \* '/'
            THEN Slash(Strtol(cx, pStart))
            ELSE [skip |-> FALSE,
                  name |-> IF name[8] = 0 THEN UpToNul(name) ELSE name,
                  oob  |-> FALSE]
    IN  Short(Bytes(cx, pSecHdr, 8))

RECURSIVE SectionsWalk(_, _, _, _, _)
SectionsWalk(cx, st, pSecHdr, i, n) ==
    IF i >= n \/ ~IsPtrSafe(cx, PAddN(cx, pSecHdr, SizeofSectionHeader), FALSE) THEN st
    ELSE
    LET Hdr(r) ==
            [dwOffset         |-> PtrToOffset(cx, pSecHdr),
             Name             |-> Bytes(cx, pSecHdr, 8),
             VirtualSize      |-> RdD(cx, PAddN(cx, pSecHdr, OffSecVirtualSize)),
             VirtualAddress   |-> RdD(cx, PAddN(cx, pSecHdr, OffSecVirtualAddress)),
             PointerToRawData |-> RdD(cx, PAddN(cx, pSecHdr, OffSecPointerToRawData)),
             SectionName      |-> r.name]
        Read(r)   == [Touch(cx, st, pSecHdr, SizeofSectionHeader) EXCEPT !.oob = @ \/ r.oob]
        Step(r)   == SectionsWalk(cx, IF r.skip THEN Read(r) ELSE Push(Read(r), "secs", Hdr(r)),
                                  PAddN(cx, pSecHdr, SizeofSectionHeader), i + 1, n)
    IN  Step(SectionRealName(cx, st, pSecHdr))

ParseSectionsHeaders(cx, st) ==
    LET Done(st1) == IF st1.rec.secs = <<>> THEN st1 ELSE SetFlag(st1, "HasSections")
    IN  IF ~(HasNt32(st) \/ HasNt64(st)) THEN st
        ELSE Done(SectionsWalk(cx, st, FirstSection(cx, NtPtr(st)), 0,
                               NumberOfSections(cx, NtPtr(st))))

----------------------------------------------------------------------------
(* Directory parsers.                                                      *)

\* IsSumOverflow: "Checking overflow at summing two DWORD_PTR"
IsSumOverflow(cx, dwFirst, dwSecond) == ULt(PAdd(cx, dwFirst, dwSecond), dwFirst)

\* a DWORD divided by a small divisor
BDivN(a, k) == <<a[1] \div k, ((a[1] % k) * W16 + a[2]) \div k>>

IMAGE_DIRECTORY_ENTRY_EXPORT         == 0
IMAGE_DIRECTORY_ENTRY_IMPORT         == 1
IMAGE_DIRECTORY_ENTRY_RESOURCE       == 2
IMAGE_DIRECTORY_ENTRY_EXCEPTION      == 3
IMAGE_DIRECTORY_ENTRY_SECURITY       == 4
IMAGE_DIRECTORY_ENTRY_BASERELOC      == 5
IMAGE_DIRECTORY_ENTRY_DEBUG          == 6
IMAGE_DIRECTORY_ENTRY_ARCHITECTURE   == 7
IMAGE_DIRECTORY_ENTRY_GLOBALPTR      == 8
IMAGE_DIRECTORY_ENTRY_TLS            == 9
IMAGE_DIRECTORY_ENTRY_LOAD_CONFIG    == 10
IMAGE_DIRECTORY_ENTRY_BOUND_IMPORT   == 11
IMAGE_DIRECTORY_ENTRY_IAT            == 12
IMAGE_DIRECTORY_ENTRY_DELAY_IMPORT   == 13
IMAGE_DIRECTORY_ENTRY_COM_DESCRIPTOR == 14

SizeofExportDirectory  == 40   \* sizeof(IMAGE_EXPORT_DIRECTORY)
OffExpName             == 12   \* IMAGE_EXPORT_DIRECTORY.Name
OffNumberOfFunctions   == 20   \* IMAGE_EXPORT_DIRECTORY.NumberOfFunctions
OffNumberOfNames       == 24   \* IMAGE_EXPORT_DIRECTORY.NumberOfNames
OffAddressOfFunctions  == 28   \* IMAGE_EXPORT_DIRECTORY.AddressOfFunctions
OffAddressOfNames      == 32   \* IMAGE_EXPORT_DIRECTORY.AddressOfNames
OffAddressOfNameOrdinals == 36 \* IMAGE_EXPORT_DIRECTORY.AddressOfNameOrdinals
SizeofImportDescriptor == 20   \* sizeof(IMAGE_IMPORT_DESCRIPTOR)
OffImpName             == 12   \* IMAGE_IMPORT_DESCRIPTOR.Name
OffImpFirstThunk       == 16   \* IMAGE_IMPORT_DESCRIPTOR.FirstThunk
iMaxModules            == 1000
iMaxFuncs              == 5000
MAX_PATH               == 260
SizeofThunk32          == 4    \* sizeof(IMAGE_THUNK_DATA32)
SizeofThunk64          == 8    \* sizeof(IMAGE_THUNK_DATA64)
SizeofResourceDirectory == 16  \* sizeof(IMAGE_RESOURCE_DIRECTORY)
OffResNamedEntries     == 12   \* IMAGE_RESOURCE_DIRECTORY.NumberOfNamedEntries
OffResIdEntries        == 14   \* IMAGE_RESOURCE_DIRECTORY.NumberOfIdEntries
SizeofResourceDirEntry == 8    \* sizeof(IMAGE_RESOURCE_DIRECTORY_ENTRY)
SizeofRuntimeFunction  == 12   \* sizeof(IMAGE_RUNTIME_FUNCTION_ENTRY)
SizeofCor20Header      == 72   \* sizeof(IMAGE_COR20_HEADER)

\* the directory's entry, resolved: RVAToPtr(GetDirEntryRVA(dwEntry))
DirPtr(cx, st, dwEntry) == RVAToPtr(cx, st, GetDirEntryRVA(cx, st, dwEntry))

\* bit 31 of a DWORD (IMAGE_ORDINAL_FLAG32, NameIsString, DataIsDirectory)
\* and the 31 bits below it
HighBit(d) == d[1] >= W16 \div 2
Low31(d)   == <<d[1] % (W16 \div 2), d[2]>>

\* a string accepted by StringCchLengthA(psz, MAX_PATH, nullptr): the bytes
\* at psz up to a NUL among the first MAX_PATH; none (empty) otherwise
SafeStr(cx, psz) ==
    LET Got(c) == [str |-> IF Len(c.str) < MAX_PATH THEN c.str ELSE <<>>,
                   oob |-> c.off \/ ~InBuf(cx, psz, c.len)]
    IN  IF psz = Zero THEN [str |-> <<>>, oob |-> FALSE] ELSE Got(CStr(cx, psz))

\* the name of function iterFuncs, looked up at index j of the ordinals
\* array: j is where the loop over it ended
ExportNameAt(cx, st, pExportDir, pwOrdinals, pdwNamesRVA, iterFuncs, j) ==
    LET pOrd  == PAddN(cx, pwOrdinals, 2 * j)
        pName == PAddN(cx, pdwNamesRVA, 4 * j)
        Named(s) ==
            [dwNameRVA |-> RdD(cx, pName), str |-> s.str,
             oob |-> s.oob \/ ~InBuf(cx, pOrd, 2) \/ ~InBuf(cx, pName, 4)]
    IN  IF /\ BLt(Num(j), RdD(cx, PAddN(cx, pExportDir, OffNumberOfNames)))
           /\ IsPtrSafe(cx, pOrd, FALSE)
        THEN Named(SafeStr(cx, RVAToPtr(cx, st, RdD(cx, pName))))
        ELSE [dwNameRVA |-> Zero, str |-> <<>>,
              oob |-> j > 0 /\ ~InBuf(cx, PAddN(cx, pwOrdinals, 2 * (j - 1)), 2)]

\* the loop over pwOrdinals for function iterFuncs
ExportName(cx, st, pExportDir, pwOrdinals, pdwNamesRVA, iterFuncs) ==
    LET Stop(j) ==
            \/ ~BLt(Num(j), RdD(cx, PAddN(cx, pExportDir, OffNumberOfNames)))
            \/ ~IsPtrSafe(cx, PAddN(cx, pwOrdinals, 2 * j), FALSE)
            \/ RdW(cx, PAddN(cx, pwOrdinals, 2 * j)) = iterFuncs
    IN  IF pdwNamesRVA = Zero \/ pwOrdinals = Zero
        THEN [dwNameRVA |-> Zero, str |-> <<>>, oob |-> FALSE]
        ELSE ExportNameAt(cx, st, pExportDir, pwOrdinals, pdwNamesRVA, iterFuncs,
                          CHOOSE j \in 0 .. GetDataSize(cx) \div 2 + 1 :
                             Stop(j) /\ \A k \in 0 .. j - 1 : ~Stop(k))

\* the test of a function's RVA against the export directory's own range,
\* its end included
IsForwarder(dwFuncRVA, dwExportStartRVA, dwExportEndRVA) ==
    BLe(dwExportStartRVA, dwFuncRVA) /\ BLe(dwFuncRVA, dwExportEndRVA)

\* the PEExportFunction of index iterFuncs; its RVA is zero when none is
\* emplaced
ExportFunc(cx, st, dwExportStartRVA, dwExportEndRVA, dwFuncRVA, iterFuncs, nm) ==
    LET Made(fwd) ==
            [dwFuncRVA |-> dwFuncRVA, dwOrdinal |-> iterFuncs, dwNameRVA |-> nm.dwNameRVA,
             strFuncName |-> nm.str, strForwarderName |-> fwd.str,
             oob |-> nm.oob \/ fwd.oob]
    IN  IF dwFuncRVA = Zero
        THEN [dwFuncRVA |-> Zero, dwOrdinal |-> iterFuncs, dwNameRVA |-> Zero,
              strFuncName |-> <<>>, strForwarderName |-> <<>>, oob |-> FALSE]
        ELSE Made(IF IsForwarder(dwFuncRVA, dwExportStartRVA, dwExportEndRVA)
                  THEN SafeStr(cx, RVAToPtr(cx, st, dwFuncRVA))
                  ELSE [str |-> <<>>, oob |-> FALSE])

\* the loop over pdwFuncsRVA (vecFuncs)
ExportWalk(cx, st, dwExportStartRVA, dwExportEndRVA, pExportDir, pdwFuncsRVA, pwOrdinals, pdwNamesRVA) ==
    LET Stop(i) ==
            \/ ~BLt(Num(i), RdD(cx, PAddN(cx, pExportDir, OffNumberOfFunctions)))
            \/ ~IsPtrSafe(cx, PAddN(cx, pdwFuncsRVA, 4 * i), FALSE)
        Kept(all, n) ==
            [funcs |-> SelectSeq([i \in 1 .. n |->
                                    [dwFuncRVA |-> all[i].dwFuncRVA,
                                     dwOrdinal |-> all[i].dwOrdinal,
                                     dwNameRVA |-> all[i].dwNameRVA,
                                     strFuncName |-> all[i].strFuncName,
                                     strForwarderName |-> all[i].strForwarderName]],
                                 LAMBDA f : f.dwFuncRVA # Zero),
             oob   |-> \/ \E i \in 1 .. n : all[i].oob
                       \/ n > 0 /\ ~InBuf(cx, PAddN(cx, pdwFuncsRVA, 4 * (n - 1)), 4)]
        Upto(n) ==
            Kept([i \in 1 .. n |->
                    ExportFunc(cx, st, dwExportStartRVA, dwExportEndRVA,
                               RdD(cx, PAddN(cx, pdwFuncsRVA, 4 * (i - 1))), i - 1,
                               IF RdD(cx, PAddN(cx, pdwFuncsRVA, 4 * (i - 1))) = Zero
                               THEN [dwNameRVA |-> Zero, str |-> <<>>, oob |-> FALSE]
                               ELSE ExportName(cx, st, pExportDir, pwOrdinals, pdwNamesRVA,
                                               i - 1))],
                 n)
    IN  Upto(CHOOSE i \in 0 .. GetDataSize(cx) \div 4 + 1 :
                Stop(i) /\ \A k \in 0 .. i - 1 : ~Stop(k))

\* ParseExport once pExportDir and pdwFuncsRVA are known
ParseExportFrom(cx, st, st0, pExportDir, pdwFuncsRVA) ==
    LET st1 == Touch(cx, st0, PAddN(cx, pExportDir, OffAddressOfFunctions), 4)
        Done(w, nm) ==
            SetFlag(SetRec([Touch(cx, st1, pExportDir, SizeofExportDirectory)
                               EXCEPT !.oob = @ \/ w.oob \/ nm.oob],
                           "export",
                           [dwOffset |-> PtrToOffset(cx, pExportDir), set |-> TRUE,
                            NumberOfFunctions |->
                                RdD(cx, PAddN(cx, pExportDir, OffNumberOfFunctions)),
                            AddressOfFunctions |->
                                RdD(cx, PAddN(cx, pExportDir, OffAddressOfFunctions)),
                            strModuleName |-> nm.str,
                            vecFuncs |-> w.funcs]),
                    "HasExport")
    IN  IF pdwFuncsRVA = Zero THEN st1
        ELSE Done(ExportWalk(cx, st, GetDirEntryRVA(cx, st, IMAGE_DIRECTORY_ENTRY_EXPORT),
                             D32(BAdd(GetDirEntryRVA(cx, st, IMAGE_DIRECTORY_ENTRY_EXPORT),
                                      GetDirEntrySize(cx, st, IMAGE_DIRECTORY_ENTRY_EXPORT))),
                             pExportDir, pdwFuncsRVA,
                             RVAToPtr(cx, st, RdD(cx, PAddN(cx, pExportDir,
                                                            OffAddressOfNameOrdinals))),
                             RVAToPtr(cx, st, RdD(cx, PAddN(cx, pExportDir,
                                                            OffAddressOfNames)))),
                  SafeStr(cx, RVAToPtr(cx, st, RdD(cx, PAddN(cx, pExportDir, OffExpName)))))

\* Clibpe::ParseExport
ParseExport(cx, st) ==
    LET At(pExportDir) ==
            IF pExportDir = Zero THEN TouchDir(cx, st, IMAGE_DIRECTORY_ENTRY_EXPORT)
            ELSE ParseExportFrom(cx, st, TouchDir(cx, st, IMAGE_DIRECTORY_ENTRY_EXPORT),
                                 pExportDir,
                                 RVAToPtr(cx, st, RdD(cx, PAddN(cx, pExportDir,
                                                                OffAddressOfFunctions))))
    IN  At(DirPtr(cx, st, IMAGE_DIRECTORY_ENTRY_EXPORT))

\* the choice of the thunk array turned around: FirstThunk preferred
ImportThunkRva_FirstThunk(oft, ft) == IF ft # Zero THEN ft ELSE oft

\* the thunk array of a descriptor: OriginalFirstThunk, or FirstThunk when
\* that is zero
ImportThunkRva(oft, ft) == IF oft # Zero THEN oft ELSE ft

\* IMAGE_THUNK_DATA32 / 64 at p: its low and its high DWORD
RdThunk(cx, pe64, p) ==
    [lo |-> RdD(cx, p), hi |-> IF pe64 THEN RdD(cx, PAddN(cx, p, 4)) ELSE Zero]

\* the PEImportFunction of the thunk at p.  Both variants test
\* IMAGE_ORDINAL_FLAG32; a thunk without it is looked up as
\* IMAGE_IMPORT_BY_NAME at RVAToPtr(AddressOfData), an ULONGLONG in PE32+
\* that no section holds once it is 2^32 or more.
ImportFunc(cx, st, pe64, p) ==
    LET Named(t, pName, nm) ==
            [thunk |-> t,
             hint  |-> IF pName # Zero /\ (nm.str # <<>> \/ RdB(cx, PAddN(cx, pName, 2)) = 0)
                       THEN RdW(cx, pName) ELSE 0,
             name  |-> nm.str,
             oob   |-> nm.oob]
        ByName(t, pName) ==
            Named(t, pName, SafeStr(cx, IF pName = Zero THEN Zero ELSE PAddN(cx, pName, 2)))
        At(t) ==
            IF HighBit(t.lo)
            THEN [thunk |-> t, hint |-> 0, name |-> <<>>, oob |-> FALSE]
            ELSE ByName(t, IF t.hi # Zero THEN Zero ELSE RVAToPtr(cx, st, t.lo))
    IN  At(RdThunk(cx, pe64, p))

\* thunk k of the array at pThunk is where the loop over it ends having
\* emplaced k functions:
\*   PE32   ++pThunk32 is not safe, or ++iFuncsCount reached iMaxFuncs, or
\*          the thunk is zero;
\*   PE32+  ++iFuncsCount, done twice an iteration, reached iMaxFuncs, or
\*          the thunk is zero; pThunk64++ goes unchecked.
ThunkStop(cx, pe64, pThunk, k) ==
    LET p == PAddN(cx, pThunk, (IF pe64 THEN SizeofThunk64 ELSE SizeofThunk32) * k)
        t == RdThunk(cx, pe64, p)
    IN  \/ ~pe64 /\ k > 0 /\ (~IsPtrSafe(cx, p, FALSE) \/ k = iMaxFuncs)
        \/ pe64 /\ k > 0 /\ (2 * k - 1 = iMaxFuncs \/ 2 * k = iMaxFuncs)
        \/ t.lo = Zero /\ t.hi = Zero

\* the number of functions emplaced from the array at pThunk, from k on
RECURSIVE ThunkCount(_, _, _, _)
ThunkCount(cx, pe64, pThunk, k) ==
    IF ThunkStop(cx, pe64, pThunk, k) THEN k
    ELSE IF \E j \in k + 1 .. k + 256 : ThunkStop(cx, pe64, pThunk, j)
    THEN CHOOSE j \in k + 1 .. k + 256 :
            /\ ThunkStop(cx, pe64, pThunk, j)
            /\ \A i \in k + 1 .. j - 1 : ~ThunkStop(cx, pe64, pThunk, i)
    ELSE ThunkCount(cx, pe64, pThunk, k + 256)

\* the functions of the thunk array at pThunk (vecFunc)
ImportFuncs(cx, st, pe64, pThunk) ==
    LET w == IF pe64 THEN SizeofThunk64 ELSE SizeofThunk32
        Read(n) ==
            \* the thunks read: the n emplaced and, unless a break ended
            \* the loop, the zero one after them
            IF (~pe64 /\ n > 0 /\ (~IsPtrSafe(cx, PAddN(cx, pThunk, w * n), FALSE)
                                   \/ n = iMaxFuncs))
               \/ (pe64 /\ n > 0 /\ 2 * n >= iMaxFuncs)
            THEN n ELSE n + 1
        Funcs(n, fs) ==
            [funcs |-> [k \in 1 .. n |-> [thunk |-> fs[k].thunk, hint |-> fs[k].hint,
                                          name |-> fs[k].name]],
             oob   |-> \/ ~InBuf(cx, pThunk, w * Read(n))
                       \/ \E k \in 1 .. n : fs[k].oob]
        Upto(n) ==
            Funcs(n, [k \in 1 .. n |-> ImportFunc(cx, st, pe64, PAddN(cx, pThunk, w * (k - 1)))])
    IN  Upto(ThunkCount(cx, pe64, pThunk, 0))

\* Clibpe::ParseImport: the walk over the descriptors.
\*   PE32:  an unresolvable thunk array ends the walk (break);
\*   PE32+: it ends ParseImport (return false), HasImport left unset.
\* The result carries ret: ParseImport ran to its end.
RECURSIVE ImportWalk(_, _, _, _)
ImportWalk(cx, st, pImpDesc, iModulesCount) ==
    LET st1  == Touch(cx, st, pImpDesc, SizeofImportDescriptor)
        name == RdD(cx, PAddN(cx, pImpDesc, OffImpName))
        oft  == RdD(cx, pImpDesc)
        ft   == RdD(cx, PAddN(cx, pImpDesc, OffImpFirstThunk))
        next == PAddN(cx, pImpDesc, SizeofImportDescriptor)
        \* ++pImpDesc, ++iModulesCount
        Going(st2) ==
            IF ~IsPtrSafe(cx, next, FALSE) \/ iModulesCount + 1 = iMaxModules
            THEN [ret |-> TRUE, st |-> st2]
            ELSE ImportWalk(cx, st2, next, iModulesCount + 1)
        Module(pThunk, fs, dll) ==
            IF pThunk = Zero THEN [ret |-> st.fi["IsPE32"], st |-> st1]
            ELSE Going([Push(st1, "import",
                             [dwOffset |-> PtrToOffset(cx, pImpDesc),
                              OriginalFirstThunk |-> oft,
                              FirstThunk |-> ft,
                              Name |-> name,
                              strModuleName |-> dll.str,
                              funcs |-> fs.funcs])
                          EXCEPT !.oob = @ \/ fs.oob \/ dll.oob])
    IN  IF name = Zero THEN [ret |-> TRUE, st |-> Touch(cx, st, PAddN(cx, pImpDesc, OffImpName), 4)]
        ELSE IF ImportThunkRva(oft, ft) # Zero
        THEN Module(RVAToPtr(cx, st, ImportThunkRva(oft, ft)),
                    ImportFuncs(cx, st, ~st.fi["IsPE32"],
                                RVAToPtr(cx, st, ImportThunkRva(oft, ft))),
                    SafeStr(cx, RVAToPtr(cx, st, name)))
        ELSE Going(st1)

ParseImport(cx, st) ==
    LET st0 == TouchDir(cx, st, IMAGE_DIRECTORY_ENTRY_IMPORT)
        Walked(w) == IF w.ret THEN SetFlag(w.st, "HasImport") ELSE w.st
        At(pImpDesc) ==
            IF pImpDesc = Zero THEN st0
            ELSE IF st.fi["IsPE32"] \/ st.fi["IsPE64"]
            THEN Walked(ImportWalk(cx, st0, pImpDesc, 0))
            ELSE SetFlag(st0, "HasImport")
    IN  At(DirPtr(cx, st, IMAGE_DIRECTORY_ENTRY_IMPORT))

SizeofResourceDataEntry == 16 \* sizeof(IMAGE_RESOURCE_DATA_ENTRY)

\* IMAGE_RESOURCE_DIR_STRING_U at pResDirStr: Length, then at most MAX_PATH
\* of its UTF-16 units
ResDirString(cx, pResDirStr) ==
    LET Units(n) == [k \in 1 .. n |-> RdW(cx, PAddN(cx, pResDirStr, 2 * k))]
        Capped(len) == IF len < MAX_PATH THEN len ELSE MAX_PATH
    IN  Units(Capped(RdW(cx, pResDirStr)))

\* ParseResources without the guard of level 3 against its level-2 parent
ResLoopHack_RootOnly(lvl, pChild, pRoot, pDir) ==
    pChild = pRoot

\* "Resource loop hack": the child directory of an entry at level lvl is one
\* of its ancestors (the root for level 1; the root or the level-2 directory
\* for level 2)
ResLoopHack(lvl, pChild, pRoot, pDir) ==
    \/ lvl = 1 /\ pChild = pRoot
    \/ lvl = 2 /\ (pChild = pDir \/ pChild = pRoot)

\* what an entry of a resource directory leads to:
\*   brk    the loop over the entries is left, this entry not emplaced,
\*   data, raw   the IMAGE_RESOURCE_DATA_ENTRY of a leaf and its bytes,
\*   child  the directory below,
\*   oob    some read left the buffer,
\*   throw  assign(first, last) was handed last < first (the sum wrapped).
ResNone(brk, oob, throw) ==
    [brk |-> brk, data |-> [OffsetToData |-> Zero, Size |-> Zero], raw |-> <<>>,
     child |-> [set |-> FALSE, dwOffset |-> Zero, n |-> 0, ents |-> <<>>],
     oob |-> oob, throw |-> throw]

\* the leaf whose IMAGE_RESOURCE_DATA_ENTRY is at pData; pRaw is the address
\* RVAToPtr gives its bytes
ResLeaf(cx, st, pData) ==
    LET At(rva, size, pRaw, pEnd, out) ==
            [ResNone(FALSE,
                     out \/ (/\ pRaw # Zero /\ IsPtrSafe(cx, pEnd, TRUE) /\ ~ULt(pEnd, pRaw)
                             /\ ~InBuf(cx, pRaw, Small(size))),
                     pRaw # Zero /\ IsPtrSafe(cx, pEnd, TRUE) /\ ULt(pEnd, pRaw))
                EXCEPT !.data = [OffsetToData |-> rva, Size |-> size],
                       !.raw  = IF pRaw = Zero \/ ~IsPtrSafe(cx, pEnd, TRUE) \/ ULt(pEnd, pRaw)
                                THEN <<>>
                                ELSE Bytes(cx, pRaw, Small(size))]
    IN  IF ~IsPtrSafe(cx, pData, FALSE) THEN ResNone(FALSE, FALSE, FALSE)
        ELSE At(RdD(cx, pData), RdD(cx, PAddN(cx, pData, 4)),
                RVAToPtr(cx, st, RdD(cx, pData)),
                PAdd(cx, RVAToPtr(cx, st, RdD(cx, pData)), RdD(cx, PAddN(cx, pData, 4))),
                ~InBuf(cx, pData, SizeofResourceDataEntry))

\* the loop over the entries of the directory pDir of level lvl (1 the root,
\* 2, 3), from entry i of n at pEntry.  The result: ents the entries
\* emplaced, oob some read left the buffer, throw an exception ended it.
RECURSIVE ResWalk(_, _, _, _, _, _, _, _)
ResWalk(cx, st, lvl, pRoot, pDir, pEntry, i, n) ==
    LET name  == RdD(cx, pEntry)
        data  == RdD(cx, PAddN(cx, pEntry, 4))
        pNext == PAddN(cx, pEntry, SizeofResourceDirEntry)
        Done(oob, throw) == [ents |-> <<>>, oob |-> oob, throw |-> throw]
        \* the name of the entry: the string at pStr when NameIsString and
        \* pStr is safe
        Str(pStr, w) == [wstr |-> w, oob |-> ~InBuf(cx, pStr, 2 + 2 * Len(w))]
        ResName(pStr) ==
            IF HighBit(name) /\ IsPtrSafe(cx, pStr, FALSE)
            THEN Str(pStr, ResDirString(cx, pStr))
            ELSE [wstr |-> <<>>, oob |-> FALSE]
        Ent(nm, kid) ==
            [Name |-> name, OffsetToData |-> data, wstrName |-> nm.wstr,
             data |-> kid.data, raw |-> kid.raw, child |-> kid.child]
        \* the entry named nm that leads to kid: emplaced unless the loop
        \* was left; rest is the loop from ++pEntry on, run if that is safe
        Entry(nm, kid, rest) ==
            IF HighBit(name) /\ IsSumOverflow(cx, pRoot, Low31(name))
            THEN Done(FALSE, FALSE)
            ELSE IF kid.brk \/ kid.throw THEN Done(nm.oob \/ kid.oob, kid.throw)
            ELSE IF ~IsPtrSafe(cx, pNext, FALSE)
            THEN [ents |-> <<Ent(nm, kid)>>, oob |-> nm.oob \/ kid.oob, throw |-> FALSE]
            ELSE [ents |-> <<Ent(nm, kid)>> \o rest.ents,
                  oob |-> nm.oob \/ kid.oob \/ rest.oob, throw |-> rest.throw]
        \* the directory at pChild with m entries, r the walk of them
        Dir(pChild, m, r) ==
            [ResNone(FALSE, r.oob \/ ~InBuf(cx, pChild, SizeofResourceDirectory), r.throw)
                EXCEPT !.child = [set |-> TRUE, dwOffset |-> PtrToOffset(cx, pChild),
                                  n |-> m, ents |-> r.ents]]
        \* the directory below an entry, below the walk of its m entries
        Child(pChild, m, below) ==
            IF ~IsPtrSafe(cx, pChild, FALSE) THEN ResNone(TRUE, FALSE, FALSE)
            ELSE IF ResLoopHack(lvl, pChild, pRoot, pDir)
            THEN Dir(pChild, m, Done(FALSE, FALSE))
            ELSE IF ~IsPtrSafe(cx, PAddN(cx, pChild, SizeofResourceDirectory
                                                    + SizeofResourceDirEntry * m), FALSE)
            THEN ResNone(TRUE, ~InBuf(cx, PAddN(cx, pChild, OffResNamedEntries), 4), FALSE)
            ELSE Dir(pChild, m, below)
        Count(pChild) == RdW(cx, PAddN(cx, pChild, OffResNamedEntries))
                         + RdW(cx, PAddN(cx, pChild, OffResIdEntries))
        Below(pChild) ==
            Child(pChild, Count(pChild),
                  ResWalk(cx, st, lvl + 1, pRoot, pChild,
                          PAddN(cx, pChild, SizeofResourceDirectory), 0, Count(pChild)))
    IN  IF i >= n THEN Done(FALSE, FALSE)
        ELSE Entry(ResName(PAdd(cx, pRoot, Low31(name))),
                   \* levels 1 and 2 tell a directory from a leaf by the high
                   \* bit of OffsetToData; level 3 takes every entry for a leaf
                   IF lvl < 3 /\ HighBit(data)
                   THEN Below(PAdd(cx, pRoot, Low31(data)))
                   ELSE ResLeaf(cx, st, PAdd(cx, pRoot,
                                             IF lvl < 3 THEN Low31(data) ELSE data)),
                   ResWalk(cx, st, lvl, pRoot, pDir, pNext, i + 1, n))

\* Clibpe::ParseResources, pResDirRoot the root directory
ParseResourcesAt(cx, st, pResDirRoot) ==
    LET st0 == TouchDir(cx, st, IMAGE_DIRECTORY_ENTRY_RESOURCE)
        pResDirEntryRoot == PAddN(cx, pResDirRoot, SizeofResourceDirectory)
        dwNumOfEntriesRoot == RdW(cx, PAddN(cx, pResDirRoot, OffResNamedEntries))
                              + RdW(cx, PAddN(cx, pResDirRoot, OffResIdEntries))
        Walked(st1, r) ==
            SetFlag([st1 EXCEPT
                       !.oob = @ \/ r.oob,
                       !.ub  = @ \/ r.throw,
                       !.rec.resource =
                           IF r.throw THEN @
                           ELSE [dwOffset |-> PtrToOffset(cx, pResDirRoot),
                                 set |-> TRUE, n |-> dwNumOfEntriesRoot,
                                 ents |-> r.ents]],
                    "HasResource")
    IN  IF pResDirRoot = Zero \/ ~IsPtrSafe(cx, pResDirEntryRoot, FALSE) THEN st0
        ELSE IF ~IsPtrSafe(cx, PAddN(cx, pResDirEntryRoot,
                                     SizeofResourceDirEntry * dwNumOfEntriesRoot), FALSE)
        THEN Touch(cx, st0, pResDirRoot, SizeofResourceDirectory)
        ELSE Walked(Touch(cx, st0, pResDirRoot, SizeofResourceDirectory),
                    ResWalk(cx, st, 1, pResDirRoot, pResDirRoot,
                            pResDirEntryRoot, 0, dwNumOfEntriesRoot))

\* Clibpe::ParseResources
ParseResources(cx, st) ==
    ParseResourcesAt(cx, st, DirPtr(cx, st, IMAGE_DIRECTORY_ENTRY_RESOURCE))

\* Clibpe::ParseExceptions
RECURSIVE ExceptionsWalk(_, _, _, _, _)
ExceptionsWalk(cx, st, p, i, dwEntries) ==
    IF ~BLt(Num(i), dwEntries) \/ ~IsPtrSafe(cx, p, FALSE) THEN st
    ELSE ExceptionsWalk(cx, Push(Touch(cx, st, p, SizeofRuntimeFunction), "exception",
                                 [dwOffset |-> PtrToOffset(cx, p)]),
                        PAddN(cx, p, SizeofRuntimeFunction), i + 1, dwEntries)

ParseExceptions(cx, st) ==
    LET st0 == TouchDir(cx, st, IMAGE_DIRECTORY_ENTRY_EXCEPTION)
        At(pRuntimeFuncsEntry, dwEntries) ==
            IF pRuntimeFuncsEntry = Zero THEN st0
            ELSE IF dwEntries = Zero
                    \/ ~IsPtrSafe(cx, PAdd(cx, pRuntimeFuncsEntry, dwEntries), FALSE)
            THEN st0
            ELSE SetFlag(ExceptionsWalk(cx, st0, pRuntimeFuncsEntry, 0, dwEntries), "HasException")
    IN  At(DirPtr(cx, st, IMAGE_DIRECTORY_ENTRY_EXCEPTION),
           BDivN(GetDirEntrySize(cx, st, IMAGE_DIRECTORY_ENTRY_EXCEPTION),
                 SizeofRuntimeFunction))

SizeofWinCertificate   == 12   \* sizeof(WIN_CERTIFICATE)
OffCertificateBody     == 8    \* offsetof(WIN_CERTIFICATE, bCertificate)
SizeofBaseRelocation   == 8    \* sizeof(IMAGE_BASE_RELOCATION)
SizeofDebugDirectory   == 28   \* sizeof(IMAGE_DEBUG_DIRECTORY)
SizeofTlsDirectory32   == 24   \* sizeof(IMAGE_TLS_DIRECTORY32)
SizeofTlsDirectory64   == 40   \* sizeof(IMAGE_TLS_DIRECTORY64)
SizeofLoadConfig32     == 192  \* sizeof(IMAGE_LOAD_CONFIG_DIRECTORY32)
SizeofLoadConfig64     == 320  \* sizeof(IMAGE_LOAD_CONFIG_DIRECTORY64)
OffDllNameRVA          == 4    \* IMAGE_DELAYLOAD_DESCRIPTOR.DllNameRVA
DebugSectionName == <<46, 100, 101, 98, 117, 103, 0>>   \* ".debug"

\* Clibpe::ParseSecurity.  seen: the certificates already visited; meeting
\* one again means the walk never ends (hang).
RECURSIVE SecurityWalk(_, _, _, _, _)
SecurityWalk(cx, st, dwStartVA, dwEndVA, seen) ==
    IF ~ULt(dwStartVA, dwEndVA) THEN st
    ELSE IF dwStartVA \in seen THEN [st EXCEPT !.hang = TRUE]
    ELSE
    LET st1        == Touch(cx, st, dwStartVA, 4)
        dwLength   == RdD(cx, dwStartVA)
        dwCertSize == DSub(dwLength, Num(OffCertificateBody))
    IN  IF ~IsPtrSafe(cx, PAdd(cx, dwStartVA, dwCertSize), FALSE) THEN st1
        ELSE
        LET st2     == Push(Touch(cx, st1, dwStartVA, SizeofWinCertificate), "security",
                            [dwOffset |-> PtrToOffset(cx, dwStartVA), dwLength |-> dwLength])
            aligned == DAdd(dwLength, Num((8 - (dwLength[2] % 8)) % 8))
            next    == PAdd(cx, dwStartVA, aligned)
        IN  IF ~IsPtrSafe(cx, next, FALSE) THEN st2
            ELSE SecurityWalk(cx, st2, next, dwEndVA, seen \cup {dwStartVA})

ParseSecurity(cx, st) ==
    LET st0 == TouchDir(cx, st, IMAGE_DIRECTORY_ENTRY_SECURITY)
        dwSecurityDirOffset == GetDirEntryRVA(cx, st, IMAGE_DIRECTORY_ENTRY_SECURITY)
        dwSecurityDirSize   == GetDirEntrySize(cx, st, IMAGE_DIRECTORY_ENTRY_SECURITY)
        dwStartVA == PAdd(cx, GetBaseAddr(cx), dwSecurityDirOffset)
        dwEndVA   == PAdd(cx, dwStartVA, dwSecurityDirSize)
    IN  IF dwSecurityDirOffset = Zero \/ dwSecurityDirSize = Zero THEN st0
        ELSE IF IsSumOverflow(cx, dwSecurityDirOffset, GetBaseAddr(cx)) THEN st0
        ELSE IF IsSumOverflow(cx, dwStartVA, dwSecurityDirSize) THEN st0
        ELSE IF ~IsPtrSafe(cx, dwStartVA, FALSE) \/ ~IsPtrSafe(cx, dwEndVA, TRUE) THEN st0
        ELSE SetFlag(SecurityWalk(cx, st0, dwStartVA, dwEndVA, {}), "HasSecurity")

IMAGE_REL_BASED_HIGHADJ == 4

\* PERelocData of the slot at pwRelocEntry
RelocData(cx, pwRelocEntry, wRelocType, wRelocOffset) ==
    [dwOffset |-> PtrToOffset(cx, pwRelocEntry), wRelocType |-> wRelocType,
     wRelocOffset |-> wRelocOffset]

\* the second slot of a HIGHADJ relocation: "The low 16-bit field", recorded
\* with the type of the first, and the same with the type decoded from the
\* slot itself
RelocLowSlot_Decoded(cx, pwRelocEntry, wRelocType) ==
    RelocData(cx, pwRelocEntry, RdW(cx, pwRelocEntry) \div 4096, RdW(cx, pwRelocEntry) % 4096)
RelocLowSlot(cx, pwRelocEntry, wRelocType) ==
    RelocData(cx, pwRelocEntry, wRelocType, RdW(cx, pwRelocEntry))

\* Clibpe::ParseRelocations: the entries of one block, r what the loop holds
\* so far (vecRelocs and whether a read left the buffer)
RECURSIVE RelocEntries(_, _, _, _, _)
RelocEntries(cx, pwRelocEntry, i, dwNumRelocEntries, r) ==
    IF ~BLt(Num(i), dwNumRelocEntries) \/ ~IsPtrSafe(cx, pwRelocEntry, FALSE) THEN r
    ELSE
    LET w    == RdW(cx, pwRelocEntry)
        pLow == PAddN(cx, pwRelocEntry, 2)
        one  == [vecRelocs |-> Append(r.vecRelocs,
                                      RelocData(cx, pwRelocEntry, w \div 4096, w % 4096)),
                 oob |-> r.oob \/ ~InBuf(cx, pwRelocEntry, 2)]
    IN  IF w \div 4096 # IMAGE_REL_BASED_HIGHADJ
        THEN RelocEntries(cx, pLow, i + 1, dwNumRelocEntries, one)
        ELSE IF ~IsPtrSafe(cx, pLow, FALSE)
             THEN [vecRelocs |-> <<>>, oob |-> one.oob]
             ELSE RelocEntries(cx, PAddN(cx, pLow, 2), i + 1,
                               BSub(dwNumRelocEntries, Num(1)),
                               [vecRelocs |-> Append(one.vecRelocs,
                                                     RelocLowSlot(cx, pLow, w \div 4096)),
                                oob |-> one.oob \/ ~InBuf(cx, pLow, 2)])

\* the blocks from pBaseRelocDesc on, its header read
RECURSIVE RelocBlocks(_, _, _)
RelocBlocks(cx, st, pBaseRelocDesc) ==
    LET SizeOfBlock == RdD(cx, PAddN(cx, pBaseRelocDesc, 4))
        Block(vecRelocs) ==
            [dwOffset       |-> PtrToOffset(cx, pBaseRelocDesc),
             VirtualAddress |-> RdD(cx, pBaseRelocDesc),
             SizeOfBlock    |-> SizeOfBlock,
             vecRelocs      |-> vecRelocs]
        Advance(st1, pNext) ==
            IF IsSumOverflow(cx, pBaseRelocDesc, SizeOfBlock) \/ ~IsPtrSafe(cx, pNext, FALSE)
            THEN st1
            ELSE RelocBlocks(cx, Touch(cx, st1, pNext, SizeofBaseRelocation), pNext)
        Entries(r) ==
            Advance(Push([st EXCEPT !.oob = @ \/ r.oob], "relocs", Block(r.vecRelocs)),
                    PAdd(cx, pBaseRelocDesc, SizeOfBlock))
    IN  IF SizeOfBlock = Zero \/ RdD(cx, pBaseRelocDesc) = Zero THEN st
        ELSE IF BLt(SizeOfBlock, Num(SizeofBaseRelocation))
             THEN Push(st, "relocs", Block(<<>>))
        ELSE Entries(RelocEntries(cx, PAddN(cx, pBaseRelocDesc, SizeofBaseRelocation), 0,
                                  BDivN(BSub(SizeOfBlock, Num(SizeofBaseRelocation)), 2),
                                  [vecRelocs |-> <<>>, oob |-> FALSE]))

ParseRelocations(cx, st) ==
    LET st0 == TouchDir(cx, st, IMAGE_DIRECTORY_ENTRY_BASERELOC)
        First(pBaseRelocDesc, st1) ==
            IF RdD(cx, PAddN(cx, pBaseRelocDesc, 4)) = Zero \/ RdD(cx, pBaseRelocDesc) = Zero
            THEN Push(st1, "relocs",
                      [dwOffset       |-> PtrToOffset(cx, pBaseRelocDesc),
                       VirtualAddress |-> RdD(cx, pBaseRelocDesc),
                       SizeOfBlock    |-> RdD(cx, PAddN(cx, pBaseRelocDesc, 4)),
                       vecRelocs      |-> <<>>])
            ELSE RelocBlocks(cx, st1, pBaseRelocDesc)
        At(pBaseRelocDesc) ==
            IF pBaseRelocDesc = Zero THEN st0
            ELSE SetFlag(First(pBaseRelocDesc,
                               Touch(cx, st0, pBaseRelocDesc, SizeofBaseRelocation)),
                         "HasReloc")
    IN  At(DirPtr(cx, st, IMAGE_DIRECTORY_ENTRY_BASERELOC))

\* Clibpe::GetSecHdrFromName(".debug")
RECURSIVE SecHdrNameWalk(_, _, _, _, _)
SecHdrNameWalk(cx, pSecHdr, i, n, name) ==
    IF i >= n \/ ~IsPtrSafe(cx, PAddN(cx, pSecHdr, SizeofSectionHeader), FALSE) THEN Zero
    ELSE IF UpToNul(Bytes(cx, pSecHdr, 8)) = UpToNul(name) THEN pSecHdr
    ELSE SecHdrNameWalk(cx, PAddN(cx, pSecHdr, SizeofSectionHeader), i + 1, n, name)
GetSecHdrFromName(cx, st, name) ==
    IF HasNt32(st) \/ HasNt64(st)
    THEN SecHdrNameWalk(cx, FirstSection(cx, NtPtr(st)), 0,
                        NumberOfSections(cx, NtPtr(st)), name)
    ELSE Zero

\* Clibpe::ParseDebug
RECURSIVE DebugWalk(_, _, _, _, _)
DebugWalk(cx, st, p, i, dwDebugEntries) ==
    IF ~BLt(Num(i), dwDebugEntries) THEN st
    ELSE
    LET st1  == Push(Touch(cx, st, p, SizeofDebugDirectory), "debug",
                     [dwOffset |-> PtrToOffset(cx, p)])
        next == PAddN(cx, p, SizeofDebugDirectory)
    IN  IF ~IsPtrSafe(cx, next, FALSE) THEN st1
        ELSE DebugWalk(cx, st1, next, i + 1, dwDebugEntries)

ParseDebug(cx, st) ==
    LET st0 == TouchDir(cx, st, IMAGE_DIRECTORY_ENTRY_DEBUG)
        dwDebugDirRVA == GetDirEntryRVA(cx, st, IMAGE_DIRECTORY_ENTRY_DEBUG)
        dirSize       == GetDirEntrySize(cx, st, IMAGE_DIRECTORY_ENTRY_DEBUG)
        Dir(byName, pDebugDir, dwDebugDirSize) ==
            IF ~byName /\ (GetSecHdrFromRVA(cx, st, dwDebugDirRVA) = Zero \/ pDebugDir = Zero)
            THEN st0
            ELSE IF BDivN(dwDebugDirSize, SizeofDebugDirectory) = Zero
                    \/ IsSumOverflow(cx, pDebugDir, dwDebugDirSize)
                    \/ ~IsPtrSafe(cx, PAdd(cx, pDebugDir, dwDebugDirSize), FALSE)
            THEN st0
            ELSE SetFlag(DebugWalk(cx, st0, pDebugDir, 0,
                                   BDivN(dwDebugDirSize, SizeofDebugDirectory)), "HasDebug")
        Sec(pNamed, byName) ==
            Dir(byName,
                IF byName
                THEN PAdd(cx, GetBaseAddr(cx), RdD(cx, PAddN(cx, pNamed, OffSecPointerToRawData)))
                ELSE RVAToPtr(cx, st, dwDebugDirRVA),
                IF byName THEN D32(BMulN(dirSize, SizeofDebugDirectory)) ELSE dirSize)
        Named(pNamed) ==
            Sec(pNamed, pNamed # Zero
                        /\ RdD(cx, PAddN(cx, pNamed, OffSecVirtualAddress)) = dwDebugDirRVA)
    IN  IF dwDebugDirRVA = Zero THEN st0
        ELSE Named(GetSecHdrFromName(cx, st, DebugSectionName))

\* Clibpe::ParseArchitecture
ParseArchitecture(cx, st) ==
    LET st0 == TouchDir(cx, st, IMAGE_DIRECTORY_ENTRY_ARCHITECTURE)
        dwArchDirRVA == GetDirEntryRVA(cx, st, IMAGE_DIRECTORY_ENTRY_ARCHITECTURE)
    IN  IF dwArchDirRVA = Zero \/ RVAToPtr(cx, st, dwArchDirRVA) = Zero THEN st0
        ELSE SetFlag(st0, "HasArchitect")

\* Clibpe::ParseGlobalPtr
ParseGlobalPtr(cx, st) ==
    LET st0 == TouchDir(cx, st, IMAGE_DIRECTORY_ENTRY_GLOBALPTR)
    IN  IF DirPtr(cx, st, IMAGE_DIRECTORY_ENTRY_GLOBALPTR) = Zero THEN st0
        ELSE SetFlag(st0, "HasGlobalPtr")

OffImageBase32         == 28   \* IMAGE_OPTIONAL_HEADER32.ImageBase, a DWORD
OffImageBase64         == 24   \* IMAGE_OPTIONAL_HEADER64.ImageBase, an ULONGLONG
OffTlsCallBacks32      == 12   \* IMAGE_TLS_DIRECTORY32.AddressOfCallBacks
OffTlsCallBacks64      == 24   \* IMAGE_TLS_DIRECTORY64.AddressOfCallBacks

\* an ULONGLONG is the pair of its low and its high DWORD
\* Clibpe::GetImageBase
GetImageBase(cx, st) ==
    IF st.fi["IsPE32"]
    THEN [lo |-> RdD(cx, PAddN(cx, st.nt32, OffOptionalHeader + OffImageBase32)), hi |-> Zero]
    ELSE IF st.fi["IsPE64"]
    THEN [lo |-> RdD(cx, PAddN(cx, st.nt64, OffOptionalHeader + OffImageBase64)),
          hi |-> RdD(cx, PAddN(cx, st.nt64, OffOptionalHeader + OffImageBase64 + 4))]
    ELSE [lo |-> Zero, hi |-> Zero]

\* a - b of two ULONGLONGs
QSub(a, b) ==
    [lo |-> DSub(a.lo, b.lo),
     hi |-> DSub(DSub(a.hi, b.hi), IF BLt(a.lo, b.lo) THEN Num(1) ELSE Zero)]

\* the callbacks read so far kept when ++pTLSCallbacks leaves the buffer
TlsCallbacksAtEnd_Kept(vec) == vec

\* vecTLSCallbacks.clear() when ++pTLSCallbacks leaves the buffer
TlsCallbacksAtEnd(vec) == <<>>

\* Clibpe::ParseTLS: the loop over the callbacks; r is [vec, oob]
RECURSIVE TlsCallbacks(_, _, _)
TlsCallbacks(cx, pTLSCallbacks, r) ==
    LET d  == RdD(cx, pTLSCallbacks)
        r1 == [r EXCEPT !.oob = @ \/ ~InBuf(cx, pTLSCallbacks, 4)]
    IN  IF d = Zero THEN r1
        ELSE IF ~IsPtrSafe(cx, PAddN(cx, pTLSCallbacks, 4), FALSE)
        THEN [r1 EXCEPT !.vec = TlsCallbacksAtEnd(Append(r.vec, d))]
        ELSE TlsCallbacks(cx, PAddN(cx, pTLSCallbacks, 4),
                          [r1 EXCEPT !.vec = Append(r.vec, d)])

\* IMAGE_TLS_DIRECTORY32 / 64 .AddressOfCallBacks of the directory at pTLSDir
TlsAddressOfCallBacks(cx, st, pTLSDir) ==
    IF st.fi["IsPE32"]
    THEN [lo |-> RdD(cx, PAddN(cx, pTLSDir, OffTlsCallBacks32)), hi |-> Zero]
    ELSE [lo |-> RdD(cx, PAddN(cx, pTLSDir, OffTlsCallBacks64)),
          hi |-> RdD(cx, PAddN(cx, pTLSDir, OffTlsCallBacks64 + 4))]

\* pTLSCallbacks = RVAToPtr(ullRVA) and the loop over it; an ULONGLONG of
\* 2^32 or more is in no section
TlsCallbacksOf(cx, st, ullRVA) ==
    LET Loop(pTLSCallbacks) ==
            IF pTLSCallbacks = Zero THEN [vec |-> <<>>, oob |-> FALSE]
            ELSE TlsCallbacks(cx, pTLSCallbacks, [vec |-> <<>>, oob |-> FALSE])
    IN  Loop(IF ullRVA.hi # Zero THEN Zero ELSE RVAToPtr(cx, st, ullRVA.lo))

\* the directory at pTLSDir, st0 the state the reads of the data directory left
TlsAt(cx, st, st0, pTLSDir) ==
    LET Captured(cbs) ==
            SetFlag(SetRec([Touch(cx, st0, pTLSDir,
                                  IF st.fi["IsPE32"] THEN SizeofTlsDirectory32
                                                     ELSE SizeofTlsDirectory64)
                               EXCEPT !.oob = @ \/ cbs.oob],
                           "tls", [dwOffset |-> PtrToOffset(cx, pTLSDir), set |-> TRUE,
                                   vecTLSCallbacks |-> cbs.vec]),
                    "HasTLS")
    IN  IF ~(st.fi["IsPE32"] \/ st.fi["IsPE64"]) \/ pTLSDir = Zero THEN st0
        ELSE Captured(TlsCallbacksOf(cx, st, QSub(TlsAddressOfCallBacks(cx, st, pTLSDir),
                                                  GetImageBase(cx, st))))

\* Clibpe::ParseTLS
ParseTLS(cx, st) ==
    IF GetDirEntryRVA(cx, st, IMAGE_DIRECTORY_ENTRY_TLS) = Zero
    THEN TouchDir(cx, st, IMAGE_DIRECTORY_ENTRY_TLS)
    ELSE TlsAt(cx, st, TouchDir(cx, st, IMAGE_DIRECTORY_ENTRY_TLS),
               DirPtr(cx, st, IMAGE_DIRECTORY_ENTRY_TLS))

\* Clibpe::ParseLCD.  The PE32+ branch checks sizeof(PIMAGE_LOAD_CONFIG_DIRECTORY64),
\* the size of a pointer.
ParseLCD(cx, st) ==
    LET st0  == TouchDir(cx, st, IMAGE_DIRECTORY_ENTRY_LOAD_CONFIG)
        chk  == IF st.fi["IsPE32"] THEN SizeofLoadConfig32
                ELSE IF cx.win64 THEN 8 ELSE 4
        len  == IF st.fi["IsPE32"] THEN SizeofLoadConfig32 ELSE SizeofLoadConfig64
        At(pLCD) ==
            IF pLCD = Zero \/ ~IsPtrSafe(cx, PAddN(cx, pLCD, chk), FALSE) THEN st0
            ELSE SetFlag(SetRec(Touch(cx, st0, pLCD, len), "lcd",
                                [dwOffset |-> PtrToOffset(cx, pLCD), set |-> TRUE]),
                         "HasLoadCFG")
    IN  IF ~(st.fi["IsPE32"] \/ st.fi["IsPE64"]) THEN st
        ELSE At(DirPtr(cx, st, IMAGE_DIRECTORY_ENTRY_LOAD_CONFIG))

\* Clibpe::ParseBoundImport
SizeofBoundDescriptor  == 8    \* sizeof(IMAGE_BOUND_IMPORT_DESCRIPTOR), sizeof(IMAGE_BOUND_FORWARDER_REF)
OffOffsetModuleName    == 4    \* IMAGE_BOUND_IMPORT_DESCRIPTOR.OffsetModuleName
OffNumberOfFwdRefs     == 6    \* IMAGE_BOUND_IMPORT_DESCRIPTOR.NumberOfModuleForwarderRefs

\* the name of the record at pRec: the string at pBoundImpDesc + OffsetModuleName
BoundName(cx, pBoundImpDesc, pRec) ==
    LET Name(szName) ==
            IF IsPtrSafe(cx, szName, FALSE) THEN SafeStr(cx, szName)
            ELSE [str |-> <<>>, oob |-> FALSE]
    IN  Name(PAddN(cx, pBoundImpDesc, RdW(cx, PAddN(cx, pRec, OffOffsetModuleName))))

\* Clibpe::ParseBoundImport: the loop over the forwarder refs.  The bound
\* NumberOfModuleForwarderRefs is read through pBoundImpDesc on every turn,
\* and pBoundImpDesc moves with the forwarders.  r: vecBoundForwarders and
\* whether a read left the buffer; the result adds desc, pBoundImpDesc
\* after the loop.
RECURSIVE BoundForwarders(_, _, _, _, _)
BoundForwarders(cx, pBoundImpDesc, pBoundImpForwarder, i, r) ==
    IF i >= RdW(cx, PAddN(cx, pBoundImpDesc, OffNumberOfFwdRefs))
    THEN [vec |-> r.vec, oob |-> r.oob \/ ~InBuf(cx, pBoundImpDesc, SizeofBoundDescriptor),
          desc |-> pBoundImpDesc]
    ELSE
    LET Recorded(name) ==
            [vec |-> Append(r.vec,
                            [dwOffset         |-> PtrToOffset(cx, pBoundImpForwarder),
                             TimeDateStamp    |-> RdD(cx, pBoundImpForwarder),
                             OffsetModuleName |-> RdW(cx, PAddN(cx, pBoundImpForwarder,
                                                                OffOffsetModuleName)),
                             strBoundForwarderName |-> name.str]),
             oob |-> r.oob \/ name.oob
                     \/ ~InBuf(cx, pBoundImpDesc, SizeofBoundDescriptor)
                     \/ ~InBuf(cx, pBoundImpForwarder, SizeofBoundDescriptor)]
        Step(r1) ==
            IF ~IsPtrSafe(cx, PAddN(cx, pBoundImpForwarder, SizeofBoundDescriptor), FALSE)
            THEN [vec |-> r1.vec, oob |-> r1.oob, desc |-> pBoundImpDesc]
            ELSE IF ~IsPtrSafe(cx, PAddN(cx, pBoundImpDesc, SizeofBoundDescriptor), FALSE)
            THEN [vec |-> r1.vec, oob |-> r1.oob,
                  desc |-> PAddN(cx, pBoundImpDesc, SizeofBoundDescriptor)]
            ELSE BoundForwarders(cx, PAddN(cx, pBoundImpDesc, SizeofBoundDescriptor),
                                 PAddN(cx, pBoundImpForwarder, SizeofBoundDescriptor),
                                 i + 1, r1)
    IN  Step(Recorded(BoundName(cx, pBoundImpDesc, pBoundImpForwarder)))

\* the loop over the descriptors
RECURSIVE BoundWalk(_, _, _)
BoundWalk(cx, st, pBoundImpDesc) ==
    LET Recorded(f, name) ==
            Push([st EXCEPT !.oob = @ \/ f.oob \/ name.oob
                                      \/ ~InBuf(cx, f.desc, SizeofBoundDescriptor)],
                 "boundImp",
                 [dwOffset         |-> PtrToOffset(cx, f.desc),
                  TimeDateStamp    |-> RdD(cx, f.desc),
                  OffsetModuleName |-> RdW(cx, PAddN(cx, f.desc, OffOffsetModuleName)),
                  NumberOfModuleForwarderRefs |->
                      RdW(cx, PAddN(cx, f.desc, OffNumberOfFwdRefs)),
                  strBoundName     |-> name.str,
                  vecBoundForwarders |-> f.vec])
        After(f, st1) ==
            IF ~IsPtrSafe(cx, PAddN(cx, f.desc, SizeofBoundDescriptor), FALSE) THEN st1
            ELSE BoundWalk(cx, st1, PAddN(cx, f.desc, SizeofBoundDescriptor))
        Module(f) == After(f, Recorded(f, BoundName(cx, f.desc, f.desc)))
    IN  IF RdD(cx, pBoundImpDesc) = Zero
        THEN Touch(cx, st, pBoundImpDesc, 4)
        ELSE IF ~IsPtrSafe(cx, PAddN(cx, pBoundImpDesc, SizeofBoundDescriptor), FALSE)
        THEN Touch(cx, st, pBoundImpDesc, 4)
        ELSE Module(BoundForwarders(cx, pBoundImpDesc,
                                    PAddN(cx, pBoundImpDesc, SizeofBoundDescriptor), 0,
                                    [vec |-> <<>>, oob |-> FALSE]))

BoundImportAt(cx, st0, pBoundImpDesc) ==
    IF pBoundImpDesc = Zero THEN st0
    ELSE SetFlag(BoundWalk(cx, st0, pBoundImpDesc), "HasBoundImp")

\* Clibpe::ParseBoundImport
ParseBoundImport(cx, st) ==
    BoundImportAt(cx, TouchDir(cx, st, IMAGE_DIRECTORY_ENTRY_BOUND_IMPORT),
                  DirPtr(cx, st, IMAGE_DIRECTORY_ENTRY_BOUND_IMPORT))

\* Clibpe::ParseIAT
ParseIAT(cx, st) ==
    LET st0 == TouchDir(cx, st, IMAGE_DIRECTORY_ENTRY_IAT)
    IN  IF DirPtr(cx, st, IMAGE_DIRECTORY_ENTRY_IAT) = Zero THEN st0
        ELSE SetFlag(st0, "HasIAT")

SizeofDelayDescriptor  == 32   \* sizeof(IMAGE_DELAYLOAD_DESCRIPTOR)
OffDelayIAT            == 12   \* IMAGE_DELAYLOAD_DESCRIPTOR.ImportAddressTableRVA
OffDelayINT            == 16   \* IMAGE_DELAYLOAD_DESCRIPTOR.ImportNameTableRVA
OffDelayBoundIAT       == 20   \* IMAGE_DELAYLOAD_DESCRIPTOR.BoundImportAddressTableRVA
OffDelayUnload         == 24   \* IMAGE_DELAYLOAD_DESCRIPTOR.UnloadInformationTableRVA

ZeroThunk == [lo |-> Zero, hi |-> Zero]

\* unDelayImpThunk: ImportAddressTable is given the thunk of the name array
\* and ImportNameTable the one of the address array; an array that did not
\* resolve gives IMAGE_THUNK_DATA{ }
DelayThunks(cx, pe64, pThunkName, pThunkIAT, pThunkBoundIAT, pThunkUnloadInfoTable) ==
    LET Of(at) ==
            [ImportAddressTable      |-> at[pThunkName],
             ImportNameTable         |-> IF pThunkIAT # Zero THEN at[pThunkIAT] ELSE ZeroThunk,
             BoundImportAddressTable |-> IF pThunkBoundIAT # Zero THEN at[pThunkBoundIAT]
                                         ELSE ZeroThunk,
             UnloadInformationTable  |-> IF pThunkUnloadInfoTable # Zero
                                         THEN at[pThunkUnloadInfoTable] ELSE ZeroThunk]
    IN  Of([p \in {pThunkName, pThunkIAT, pThunkBoundIAT, pThunkUnloadInfoTable}
               |-> RdThunk(cx, pe64, p)])

\* the pointer into a thunk array after k rounds of the loop over the name
\* array; an array that did not resolve stays null
DelayAt(cx, pe64, p, k) ==
    IF p = Zero THEN Zero
    ELSE PAddN(cx, p, (IF pe64 THEN SizeofThunk64 ELSE SizeofThunk32) * k)

\* round k is where the loop over the name array ends having emplaced k
\* functions: a ++p of the round before left the buffer (break), or the
\* thunk of the name array is zero.  ps are the four arrays.
DelayStop(cx, pe64, pThunkName, ps, k) ==
    LET Zeroed(t) == t.lo = Zero /\ t.hi = Zero
    IN  \/ k > 0 /\ \E p \in ps : p # Zero /\ ~IsPtrSafe(cx, DelayAt(cx, pe64, p, k), FALSE)
        \/ Zeroed(RdThunk(cx, pe64, DelayAt(cx, pe64, pThunkName, k)))

\* the number of functions emplaced from the name array, from round k on,
\* found sixteen rounds at a time
RECURSIVE DelayCount(_, _, _, _, _)
DelayCount(cx, pe64, pThunkName, ps, k) ==
    LET First(stops) ==
            IF stops = {} THEN DelayCount(cx, pe64, pThunkName, ps, k + 16)
            ELSE CHOOSE j \in stops : \A i \in stops : j <= i
    IN  First({j \in k .. k + 15 : DelayStop(cx, pe64, pThunkName, ps, j)})

\* IMAGE_IMPORT_BY_NAME of the thunk t of the name array: none for an
\* ordinal, else what RVAToPtr gives for AddressOfData
DelayByName(cx, st, pe64, t) ==
    IF HighBit(IF pe64 THEN t.hi ELSE t.lo) \/ t.hi # Zero THEN Zero
    ELSE RVAToPtr(cx, st, t.lo)

\* the PEDelayImportFunc of one round of the loop over the name array, the
\* four pointers being where the round finds them; oob tells whether a read
\* of the round left the buffer
DelayFunc(cx, st, pe64, pThunkName, pThunkIAT, pThunkBoundIAT, pThunkUnloadInfoTable) ==
    LET Func(ts, pName, nm) ==
            [thunk |-> ts,
             hint  |-> IF pName # Zero /\ (nm.str # <<>> \/ RdB(cx, PAddN(cx, pName, 2)) = 0)
                       THEN RdW(cx, pName) ELSE 0,
             name  |-> nm.str,
             oob   |-> \/ nm.oob
                       \/ \E p \in {pThunkName, pThunkIAT, pThunkBoundIAT,
                                    pThunkUnloadInfoTable} :
                             p # Zero /\ ~InBuf(cx, p, IF pe64 THEN SizeofThunk64
                                                                ELSE SizeofThunk32)]
        Named(ts, pName) ==
            Func(ts, pName, IF pName = Zero THEN [str |-> <<>>, oob |-> FALSE]
                            ELSE SafeStr(cx, PAddN(cx, pName, 2)))
    IN  Named(DelayThunks(cx, pe64, pThunkName, pThunkIAT, pThunkBoundIAT,
                          pThunkUnloadInfoTable),
              DelayByName(cx, st, pe64, RdThunk(cx, pe64, pThunkName)))

\* the loop over the name array: [vec, oob], the functions emplaced
\* (vecFunc) and whether a read left the buffer
DelayFuncs(cx, st, pe64, pThunkName, pThunkIAT, pThunkBoundIAT, pThunkUnloadInfoTable) ==
    LET ps == {pThunkName, pThunkIAT, pThunkBoundIAT, pThunkUnloadInfoTable}
        Funcs(n, fs) ==
            [vec |-> [k \in 1 .. n |-> [thunk |-> fs[k].thunk, hint |-> fs[k].hint,
                                        name |-> fs[k].name]],
             oob |-> \/ \E k \in 1 .. n : fs[k].oob
                     \* the zero thunk that ends the loop is read too
                     \/ /\ ~(n > 0 /\ \E p \in ps :
                               p # Zero /\ ~IsPtrSafe(cx, DelayAt(cx, pe64, p, n), FALSE))
                        /\ ~InBuf(cx, DelayAt(cx, pe64, pThunkName, n),
                                  IF pe64 THEN SizeofThunk64 ELSE SizeofThunk32)]
    IN  Funcs(DelayCount(cx, pe64, pThunkName, ps, 0),
              [k \in 1 .. DelayCount(cx, pe64, pThunkName, ps, 0) |->
                  DelayFunc(cx, st, pe64, DelayAt(cx, pe64, pThunkName, k - 1),
                            DelayAt(cx, pe64, pThunkIAT, k - 1),
                            DelayAt(cx, pe64, pThunkBoundIAT, k - 1),
                            DelayAt(cx, pe64, pThunkUnloadInfoTable, k - 1))])

\* the RVAs of a descriptor that ParseDelayImport tests or resolves
DelayFields == {OffDllNameRVA, OffDelayIAT, OffDelayINT, OffDelayBoundIAT, OffDelayUnload}

RECURSIVE DelayWalk(_, _, _)

\* if (!IsPtrSafe(++pDelayImpDescr)) break; else the loop goes on
DelayNext(cx, st, pDelayImpDescr) ==
    IF ~IsPtrSafe(cx, PAddN(cx, pDelayImpDescr, SizeofDelayDescriptor), FALSE) THEN st
    ELSE DelayWalk(cx, st, PAddN(cx, pDelayImpDescr, SizeofDelayDescriptor))

\* m_vecDelayImp.emplace_back: fld the RVAs of the descriptor, fs what the
\* loop over its name array gave, dll its name
DelayModule(cx, st, pDelayImpDescr, fld, fs, dll) ==
    [Push(Touch(cx, st, pDelayImpDescr, SizeofDelayDescriptor), "delayImp",
          [dwOffset |-> PtrToOffset(cx, pDelayImpDescr),
           DllNameRVA |-> fld[OffDllNameRVA],
           ImportAddressTableRVA |-> fld[OffDelayIAT],
           ImportNameTableRVA |-> fld[OffDelayINT],
           BoundImportAddressTableRVA |-> fld[OffDelayBoundIAT],
           UnloadInformationTableRVA |-> fld[OffDelayUnload],
           strModuleName |-> dll.str,
           vecDelayImpFunc |-> fs.vec])
       EXCEPT !.oob = @ \/ fs.oob \/ dll.oob]

\* a descriptor with a name array: ptr is what RVAToPtr gave for its RVAs.
\* A name array that does not resolve ends the walk (break).
DelayNames(cx, st, pDelayImpDescr, fld, ptr) ==
    IF ptr[OffDelayINT] = Zero THEN Touch(cx, st, pDelayImpDescr, SizeofDelayDescriptor)
    ELSE DelayNext(cx,
                   DelayModule(cx, st, pDelayImpDescr, fld,
                               DelayFuncs(cx, st, ~st.fi["IsPE32"], ptr[OffDelayINT],
                                          ptr[OffDelayIAT], ptr[OffDelayBoundIAT],
                                          ptr[OffDelayUnload]),
                               SafeStr(cx, ptr[OffDllNameRVA])),
                   pDelayImpDescr)

\* the descriptor at pDelayImpDescr, fld its RVAs: DllNameRVA zero ends the
\* walk, ImportNameTableRVA zero passes the descriptor over
DelayDescr(cx, st, pDelayImpDescr, fld) ==
    IF fld[OffDllNameRVA] = Zero
    THEN Touch(cx, st, PAddN(cx, pDelayImpDescr, OffDllNameRVA), 4)
    ELSE IF fld[OffDelayINT] = Zero
    THEN DelayNext(cx, Touch(cx, st, pDelayImpDescr, SizeofDelayDescriptor), pDelayImpDescr)
    ELSE DelayNames(cx, st, pDelayImpDescr, fld,
                    [o \in DelayFields |-> RVAToPtr(cx, st, fld[o])])

\* Clibpe::ParseDelayImport: the loop over the descriptors
DelayWalk(cx, st, pDelayImpDescr) ==
    DelayDescr(cx, st, pDelayImpDescr,
               [o \in DelayFields |-> RdD(cx, PAddN(cx, pDelayImpDescr, o))])

\* Clibpe::ParseDelayImport
ParseDelayImport(cx, st) ==
    IF DirPtr(cx, st, IMAGE_DIRECTORY_ENTRY_DELAY_IMPORT) = Zero
    THEN TouchDir(cx, st, IMAGE_DIRECTORY_ENTRY_DELAY_IMPORT)
    ELSE SetFlag(IF st.fi["IsPE32"] \/ st.fi["IsPE64"]
                 THEN DelayWalk(cx, TouchDir(cx, st, IMAGE_DIRECTORY_ENTRY_DELAY_IMPORT),
                                DirPtr(cx, st, IMAGE_DIRECTORY_ENTRY_DELAY_IMPORT))
                 ELSE TouchDir(cx, st, IMAGE_DIRECTORY_ENTRY_DELAY_IMPORT),
                 "HasDelayImp")

\* Clibpe::ParseCOMDescriptor
ParseCOMDescriptor(cx, st) ==
    LET st0 == TouchDir(cx, st, IMAGE_DIRECTORY_ENTRY_COM_DESCRIPTOR)
        At(pCOMDescHeader) ==
            IF pCOMDescHeader = Zero THEN st0
            ELSE SetFlag(SetRec(Touch(cx, st0, pCOMDescHeader, SizeofCor20Header), "cor20",
                                [dwOffset |-> PtrToOffset(cx, pCOMDescHeader), set |-> TRUE]),
                         "HasCOMDescr")
    IN  At(DirPtr(cx, st, IMAGE_DIRECTORY_ENTRY_COM_DESCRIPTOR))

----------------------------------------------------------------------------
(* The loader.  m is the Model's members:                                  *)
(*   fLoaded, spn, nt32, nt64, fi, rec.                                    *)

\* ClearAll without its "m_fLoaded = false"
ClearAll_KeepsLoaded(m) ==
    [fLoaded |-> m.fLoaded, spn |-> NoFile, nt32 |-> Zero, nt64 |-> Zero,
     fi |-> NoFileInfo, rec |-> NoRecords]

\* ClearAll without its "m_stFileInfo = { }"
ClearAll_KeepsFileInfo(m) ==
    [fLoaded |-> FALSE, spn |-> NoFile, nt32 |-> Zero, nt64 |-> Zero,
     fi |-> m.fi, rec |-> NoRecords]

\* Clibpe::ClearAll.  m_ptr and m_map are not among the members it resets.
ClearAll(m) ==
    [fLoaded |-> FALSE, spn |-> NoFile, nt32 |-> Zero, nt64 |-> Zero,
     fi |-> NoFileInfo, rec |-> NoRecords]

\* the parsers LoadPe calls once the NT headers are in, in its order
Parsers ==
    <<"DataDirectories", "SectionsHeaders", "Export", "Import", "Resources",
      "Exceptions", "Security", "Relocations", "Debug", "Architecture",
      "GlobalPtr", "TLS", "LCD", "BoundImport", "IAT", "DelayImport", "COMDescriptor">>

ParseBy(name, cx, st) ==
    CASE name = "DataDirectories" -> ParseDataDirectories(cx, st)
      [] name = "SectionsHeaders" -> ParseSectionsHeaders(cx, st)
      [] name = "Export"          -> ParseExport(cx, st)
      [] name = "Import"          -> ParseImport(cx, st)
      [] name = "Resources"       -> ParseResources(cx, st)
      [] name = "Exceptions"      -> ParseExceptions(cx, st)
      [] name = "Security"        -> ParseSecurity(cx, st)
      [] name = "Relocations"     -> ParseRelocations(cx, st)
      [] name = "Debug"           -> ParseDebug(cx, st)
      [] name = "Architecture"    -> ParseArchitecture(cx, st)
      [] name = "GlobalPtr"       -> ParseGlobalPtr(cx, st)
      [] name = "TLS"             -> ParseTLS(cx, st)
      [] name = "LCD"             -> ParseLCD(cx, st)
      [] name = "BoundImport"     -> ParseBoundImport(cx, st)
      [] name = "IAT"             -> ParseIAT(cx, st)
      [] name = "DelayImport"     -> ParseDelayImport(cx, st)
      [] name = "COMDescriptor"   -> ParseCOMDescriptor(cx, st)

\* each parser runs on the state its predecessor left; sts holds that state
RECURSIVE ParseFrom(_, _, _)
ParseFrom(cx, sts, i) ==
    IF i > Len(Parsers) THEN sts
    ELSE ParseFrom(cx, {ParseBy(Parsers[i], cx, st) : st \in sts}, i + 1)

ParseDirectories(cx, st) == CHOOSE st1 \in ParseFrom(cx, {st}, 1) : TRUE

\* LoadPe(span) from its parsers on: dos what ParseMSDOSHeader gave, nt what
\* ParseNTFileOptHeader gave after ParseRichHeader, m2 the members before them
LoadPeParsed(cx, m2, dos, nt) ==
    LET Loaded(st) ==
            [ret  |-> "PEOK",
             m    |-> [fLoaded |-> TRUE, spn |-> cx.data, nt32 |-> st.nt32,
                       nt64 |-> st.nt64, fi |-> st.fi, rec |-> st.rec],
             oob  |-> st.oob,
             hang |-> st.hang,
             ub   |-> st.ub]
    IN  IF ~dos.ret
        THEN [ret |-> "ERR_FILE_NODOSHDR", m |-> m2, oob |-> FALSE, hang |-> FALSE,
              ub |-> FALSE]
        ELSE Loaded(IF nt.ret THEN ParseDirectories(cx, nt.st) ELSE nt.st)

\* Clibpe::LoadPe(std::span<const std::byte>).  cx.data is the span.  The
\* result: ret the code returned, m the members, oob / hang / ub what the
\* parsers did on the way.
LoadPe(cx, m) ==
    LET m1  == IF m.fLoaded THEN ClearAll(m) ELSE m
        m2  == [m1 EXCEPT !.spn = cx.data]
        st0 == [fi |-> m2.fi, nt32 |-> m2.nt32, nt64 |-> m2.nt64, rec |-> m2.rec,
                oob |-> FALSE, hang |-> FALSE, ub |-> FALSE]
    IN  IF cx.data.size < SizeofDosHeader
        THEN [ret |-> "ERR_FILE_SIZESMALL", m |-> m1, oob |-> FALSE, hang |-> FALSE,
              ub |-> FALSE]
        ELSE LoadPeParsed(cx, m2, ParseMSDOSHeader(cx, st0),
                          ParseNTFileOptHeader(cx, ParseRichHeader(cx,
                              ParseMSDOSHeader(cx, st0).st)))

----------------------------------------------------------------------------
(* Images.  A builder per header, composed into the files the model loads. *)

FileK(name, k, size, mem) ==
    [size |-> size, mem |-> mem, id |-> <<name, k>>, fill |-> NoFill]
File(name, size, mem) == FileK(name, 0, size, mem)

DosHdr(lfanew) == PutW(0, IMAGE_DOS_SIGNATURE) @@ PutD(60, lfanew)

NtHdr(o, pe64, nsec) ==
    PutD(o, IMAGE_NT_SIGNATURE)
    @@ PutW(o + OffNumberOfSections, nsec)
    @@ PutW(o + OffSizeOfOptHeader,
            (IF pe64 THEN SizeofNtHeaders64 ELSE SizeofNtHeaders32) - OffOptionalHeader)
    @@ PutW(o + OffOptionalHeader,
            IF pe64 THEN IMAGE_NT_OPTIONAL_HDR64_MAGIC ELSE IMAGE_NT_OPTIONAL_HDR32_MAGIC)
    @@ PutD(o + (IF pe64 THEN OffNumRvaAndSizes64 ELSE OffNumRvaAndSizes32), Num(16))

DirEnt(o, pe64, i, rva, size) ==
    LET d == o + (IF pe64 THEN OffDataDirectory64 ELSE OffDataDirectory32) + 8 * i
    IN  PutD(d, rva) @@ PutD(d + 4, size)

SecHdr(o, pe64, k, name, va, vs, raw) ==
    LET s == o + (IF pe64 THEN SizeofNtHeaders64 ELSE SizeofNtHeaders32)
               + SizeofSectionHeader * k
    IN  PutS(s, name) @@ PutD(s + OffSecVirtualSize, vs)
        @@ PutD(s + OffSecVirtualAddress, va) @@ PutD(s + OffSecPointerToRawData, raw)

TextName == <<46, 116, 101, 120, 116>>     \* ".text"
NtAt     == RichStart                      \* e_lfanew of the images built here
RawAt    == 2 * W8                         \* PointerToRawData of their first section
ImgSize  == 4 * W8                         \* their size
SecVA    == <<0, 4096>>                    \* 0x1000
SecVS    == <<0, 1024>>                    \* 0x400

\* a PE image with one section at SecVA and the given directory entries
Image(name, k, pe64, size, va, dirs) ==
    FileK(name, k, size,
         dirs @@ DosHdr(Num(NtAt)) @@ NtHdr(NtAt, pe64, 1)
         @@ SecHdr(NtAt, pe64, 0, TextName, va, SecVS, Num(RawAt)))

\* every directory entry set to the same RVA and size
AllDirs(pe64, rva, size) ==
    LET one(i) == DirEnt(NtAt, pe64, i, rva, size)
    IN  one(0) @@ one(1) @@ one(2) @@ one(3) @@ one(4) @@ one(5) @@ one(6) @@ one(7)
        @@ one(8) @@ one(9) @@ one(10) @@ one(11) @@ one(12) @@ one(13) @@ one(14)

\* directories over a populated section: the security directory (a file
\* offset) at RawAt with one 16-byte certificate, the export directory 16
\* bytes into the section, every other directory 64 bytes into it
FullDirs(pe64) ==
    DirEnt(NtAt, pe64, IMAGE_DIRECTORY_ENTRY_EXPORT, BAdd(SecVA, Num(16)), Num(40))
    @@ DirEnt(NtAt, pe64, IMAGE_DIRECTORY_ENTRY_SECURITY, Num(RawAt), Num(16))
    @@ AllDirs(pe64, BAdd(SecVA, Num(64)), Num(28))
    @@ PutD(RawAt, Num(16))
    @@ PutD(RawAt + 16 + OffAddressOfFunctions, SecVA)

MaxGap == 2     \* the COM descriptor starts 0, 36, .. 36 * MaxGap bytes before the end of its file

NoDirs == DirEnt(NtAt, FALSE, 0, Zero, Zero)

\* three sections: one plain, one whose VirtualAddress + VirtualSize passes
\* 2^32, one whose PointerToRawData is above its VirtualAddress
SecsImage ==
    File("secs", 640,
         DosHdr(Num(NtAt)) @@ NtHdr(NtAt, FALSE, 3)
         @@ SecHdr(NtAt, FALSE, 0, TextName, SecVA, <<0, 256>>, Num(RawAt))
         @@ SecHdr(NtAt, FALSE, 1, TextName, <<W16 - 1, W16 - 4096>>, <<0, 8192>>, Num(RawAt))
         @@ SecHdr(NtAt, FALSE, 2, TextName, <<0, 256>>, <<0, 256>>, <<0, 384>>))

\* a Rich stub (mask 0, one entry) before an NT header that is not there
RichImage ==
    File("rich", ImgSize,
         DosHdr(Num(256)) @@ PutD(RichStart, DanSSign) @@ PutD(RichFirst, <<7, 9>>)
         @@ PutD(RichFirst + 4, Num(3)) @@ PutD(RichFirst + 8, RichSign))

Files ==
    {File("tiny", 10, PutW(0, IMAGE_DOS_SIGNATURE)),
     File("short", SizeofDosHeader - 1, DosHdr(Num(NtAt))),
     File("dos64", SizeofDosHeader, DosHdr(Zero)),
     File("nomz", SizeofDosHeader, PutW(0, IMAGE_DOS_SIGNATURE + 1)),
     File("nosig", ImgSize, DosHdr(Num(NtAt))),
     File("rom", ImgSize, PutW(NtAt + OffOptionalHeader, 263) @@ DosHdr(Num(NtAt))
                          @@ NtHdr(NtAt, FALSE, 1)),
     File("far", ImgSize, DosHdr(Num(ImgSize - SizeofNtHeaders32))),
     File("neg", ImgSize, DosHdr(D32(<<0 - 1, W16 - 8>>))),
     File("cut64", NtAt + SizeofNtHeaders64 - 8, DosHdr(Num(NtAt)) @@ NtHdr(NtAt, TRUE, 0)),
     RichImage,
     SecsImage,
     Image("pe32", 0, FALSE, ImgSize, SecVA, NoDirs),
     Image("pe64", 0, TRUE, ImgSize, SecVA, NoDirs),
     Image("full32", 0, FALSE, ImgSize, SecVA, FullDirs(FALSE)),
     Image("full64", 0, TRUE, ImgSize, SecVA, FullDirs(TRUE)),
     Image("va0", 0, FALSE, ImgSize, Zero, NoDirs),
     Image("stray", 0, FALSE, ImgSize, SecVA, AllDirs(FALSE, <<0, 36864>>, Num(28))),
     Image("cert0", 0, FALSE, ImgSize, SecVA,
           DirEnt(NtAt, FALSE, IMAGE_DIRECTORY_ENTRY_SECURITY, Num(RawAt + 64), Num(16)))}
    \cup {Image("com", g, FALSE, ImgSize, SecVA,
                DirEnt(NtAt, FALSE, IMAGE_DIRECTORY_ENTRY_COM_DESCRIPTOR,
                       BAdd(SecVA, Num(ImgSize - RawAt - 36 * g)), Num(72)))
          : g \in 0 .. MaxGap}

\* the buffers handed to LoadPe(span) directly
Buffers == {f \in Files : f.id[1] \in {"tiny", "short", "nomz", "dos64", "nosig", "pe32"}}

\* the RVAs asked of GetOffsetFromRVA
Rvas ==
    {Zero, <<0, 4096 + 16>>, <<0, 4096 + 128>>, <<0, 4096 + 256>>, <<0, 256 + 16>>,
     <<W16 - 1, W16 - 4096 + 16>>, <<W16, 2048>>, <<0, 36864>>}

----------------------------------------------------------------------------
(* The public calls.                                                       *)

Wild == {0, 255}      \* what a byte read outside every mapped buffer may hold

Members ==
    [fLoaded |-> m_fLoaded, spn |-> m_spnData, nt32 |-> m_pNTHeader32,
     nt64 |-> m_pNTHeader64, fi |-> m_stFileInfo, rec |-> m_rec]

\* the Model as constructed
NewModel == ClearAll(Members)

\* the memory LoadPe works on: the view ptr (m_ptr) and the span data
Cx(w64, ptr, data, same, wild) ==
    [win64  |-> w64,
     base   |-> IF ptr.id = NoFile.id THEN Zero
                ELSE IF w64 THEN MapBase64 ELSE MapBase32,
     mapped |-> ptr.id # NoFile.id,
     map    |-> ptr,
     data   |-> data,
     same   |-> same,
     wild   |-> wild]

\* the most recent LoadPe(span) with no Clear since: what it was given and
\* what it returned
NoLoad == [called |-> FALSE, ret |-> "none", buf |-> NoFile, same |-> FALSE]

Init ==
    /\ win64 \in BOOLEAN
    /\ m_ptr = NoFile
    /\ m_fLoaded = FALSE
    /\ m_spnData = NoFile
    /\ m_pNTHeader32 = Zero
    /\ m_pNTHeader64 = Zero
    /\ m_stFileInfo = NoFileInfo
    /\ m_rec = NoRecords
    /\ lastLoad = NoLoad
    /\ oobRead = FALSE
    /\ crashed = FALSE
    /\ flat = <<>>

\* LoadPe(span) ran to its return
Returns(r, buf, same) ==
    /\ ~r.hang
    /\ m_fLoaded' = r.m.fLoaded
    /\ m_spnData' = r.m.spn
    /\ m_pNTHeader32' = r.m.nt32
    /\ m_pNTHeader64' = r.m.nt64
    /\ m_stFileInfo' = r.m.fi
    /\ m_rec' = r.m.rec
    /\ lastLoad' = [called |-> TRUE, ret |-> r.ret, buf |-> buf, same |-> same]
    /\ oobRead' = r.oob
    /\ crashed' = FALSE
    /\ flat' = <<>>

\* LoadPe(span) did not return: a read outside the buffer faulted, a call
\* with undefined behaviour ended the process, or the certificate walk never
\* ended
Dies(r, buf, same) ==
    /\ r.oob \/ r.hang \/ r.ub
    /\ \E how \in {"fault", "hang"} :
          /\ (how = "fault") => (r.oob \/ r.ub)
          /\ (how = "hang") => r.hang
          /\ lastLoad' = [called |-> TRUE, ret |-> how, buf |-> buf, same |-> same]
    /\ oobRead' = r.oob
    /\ crashed' = TRUE
    /\ flat' = <<>>
    /\ UNCHANGED <<m_fLoaded, m_spnData, m_pNTHeader32, m_pNTHeader64, m_stFileInfo, m_rec>>

\* a call of LoadPe(span) ends one way or the other
Finish(r, buf, same) ==
    \/ Returns(r, buf, same)
    \/ Dies(r, buf, same)

\* Clibpe::LoadPe(LPCWSTR): a file below 64 bytes is turned away
\* (ERR_FILE_SIZESMALL) before anything is touched; any other is mapped, and
\* LoadPe(span) runs on the view.
LoadPeFile(f) ==
    /\ ~crashed
    /\ IF f.size < SizeofDosHeader
       THEN UNCHANGED <<m_ptr, m_fLoaded, m_spnData, m_pNTHeader32, m_pNTHeader64,
                        m_stFileInfo, m_rec, lastLoad, oobRead, crashed, flat>>
       ELSE /\ m_ptr' = f
            /\ \E w \in Wild :
                   Finish(LoadPe(Cx(win64, f, f, TRUE, w), Members), f, TRUE)
    /\ UNCHANGED win64

\* Clibpe::LoadPe(std::span), called with a buffer of the caller's
LoadPeSpan(b) ==
    /\ ~crashed
    /\ \E w \in Wild :
          Finish(LoadPe(Cx(win64, m_ptr, b, FALSE, w), Members), b, FALSE)
    /\ UNCHANGED <<win64, m_ptr>>

\* Clibpe::Clear
Clear ==
    /\ ~crashed
    /\ LET m == ClearAll(Members)
       IN  /\ m_fLoaded' = m.fLoaded
           /\ m_spnData' = m.spn
           /\ m_pNTHeader32' = m.nt32
           /\ m_pNTHeader64' = m.nt64
           /\ m_stFileInfo' = m.fi
           /\ m_rec' = m.rec
    /\ lastLoad' = NoLoad
    /\ flat' = <<>>
    /\ UNCHANGED <<win64, m_ptr, oobRead, crashed>>

----------------------------------------------------------------------------
(* The accessors.  A pointer result is Null or the record it points to.    *)

Null      == [null |-> TRUE]
Ptr(rec)  == [null |-> FALSE, rec |-> rec]

\* Clibpe::IsLoaded
IsLoaded == m_fLoaded
\* Clibpe::GetFileInfo
GetFileInfo == IF ~m_fLoaded THEN Null ELSE Ptr(m_stFileInfo)
\* Clibpe::GetOffsetFromRVA
GetOffsetFromRVA(ullRVA) ==
    IF ~m_fLoaded THEN Zero ELSE RVAToOffset(m_rec.secs, m_spnData.size, ullRVA)

GetMSDOSHeader ==
    IF ~m_fLoaded \/ ~m_stFileInfo["HasDosHdr"] THEN Null ELSE Ptr(m_rec.dos)
GetRichHeader ==
    IF ~m_fLoaded \/ ~m_stFileInfo["HasRichHdr"] THEN Null ELSE Ptr(m_rec.rich)
GetNTHeader ==
    IF ~m_fLoaded \/ ~m_stFileInfo["HasNTHdr"] THEN Null ELSE Ptr(m_rec.nt)
GetDataDirs ==
    IF ~m_fLoaded \/ ~m_stFileInfo["HasDataDirs"] THEN Null ELSE Ptr(m_rec.dataDirs)
GetSecHeaders ==
    IF ~m_fLoaded \/ ~m_stFileInfo["HasSections"] THEN Null ELSE Ptr(m_rec.secs)
GetExport ==
    IF ~m_fLoaded \/ ~m_stFileInfo["HasExport"] THEN Null ELSE Ptr(m_rec.export)
GetImport ==
    IF ~m_fLoaded \/ ~m_stFileInfo["HasImport"] THEN Null ELSE Ptr(m_rec.import)
GetResources ==
    IF ~m_fLoaded \/ ~m_stFileInfo["HasResource"] THEN Null ELSE Ptr(m_rec.resource)
GetExceptions ==
    IF ~m_fLoaded \/ ~m_stFileInfo["HasException"] THEN Null ELSE Ptr(m_rec.exception)
GetSecurity ==
    IF ~m_fLoaded \/ ~m_stFileInfo["HasSecurity"] THEN Null ELSE Ptr(m_rec.security)
GetRelocations ==
    IF ~m_fLoaded \/ ~m_stFileInfo["HasReloc"] THEN Null ELSE Ptr(m_rec.relocs)
GetDebug ==
    IF ~m_fLoaded \/ ~m_stFileInfo["HasDebug"] THEN Null ELSE Ptr(m_rec.debug)
GetTLS ==
    IF ~m_fLoaded \/ ~m_stFileInfo["HasTLS"] THEN Null ELSE Ptr(m_rec.tls)
GetLoadConfig ==
    IF ~m_fLoaded \/ ~m_stFileInfo["HasLoadCFG"] THEN Null ELSE Ptr(m_rec.lcd)
GetBoundImport ==
    IF ~m_fLoaded \/ ~m_stFileInfo["HasBoundImp"] THEN Null ELSE Ptr(m_rec.boundImp)
GetDelayImport ==
    IF ~m_fLoaded \/ ~m_stFileInfo["HasDelayImp"] THEN Null ELSE Ptr(m_rec.delayImp)
\* GetCOMDescriptor without its test of HasCOMDescr
GetCOMDescriptor_AnyFlag ==
    IF ~m_fLoaded THEN Null ELSE Ptr(m_rec.cor20)
GetCOMDescriptor ==
    IF ~m_fLoaded \/ ~m_stFileInfo["HasCOMDescr"] THEN Null ELSE Ptr(m_rec.cor20)

\* the accessor named a; with it, the flag and the record it answers for
Accessors ==
    {<<"GetMSDOSHeader", "HasDosHdr", "dos">>, <<"GetRichHeader", "HasRichHdr", "rich">>,
     <<"GetNTHeader", "HasNTHdr", "nt">>, <<"GetDataDirs", "HasDataDirs", "dataDirs">>,
     <<"GetSecHeaders", "HasSections", "secs">>, <<"GetExport", "HasExport", "export">>,
     <<"GetImport", "HasImport", "import">>, <<"GetResources", "HasResource", "resource">>,
     <<"GetExceptions", "HasException", "exception">>,
     <<"GetSecurity", "HasSecurity", "security">>, <<"GetRelocations", "HasReloc", "relocs">>,
     <<"GetDebug", "HasDebug", "debug">>, <<"GetTLS", "HasTLS", "tls">>,
     <<"GetLoadConfig", "HasLoadCFG", "lcd">>, <<"GetBoundImport", "HasBoundImp", "boundImp">>,
     <<"GetDelayImport", "HasDelayImp", "delayImp">>,
     <<"GetCOMDescriptor", "HasCOMDescr", "cor20">>}

Accessor(a) ==
    CASE a = "GetMSDOSHeader"   -> GetMSDOSHeader
      [] a = "GetRichHeader"    -> GetRichHeader
      [] a = "GetNTHeader"      -> GetNTHeader
      [] a = "GetDataDirs"      -> GetDataDirs
      [] a = "GetSecHeaders"    -> GetSecHeaders
      [] a = "GetExport"        -> GetExport
      [] a = "GetImport"        -> GetImport
      [] a = "GetResources"     -> GetResources
      [] a = "GetExceptions"    -> GetExceptions
      [] a = "GetSecurity"      -> GetSecurity
      [] a = "GetRelocations"   -> GetRelocations
      [] a = "GetDebug"         -> GetDebug
      [] a = "GetTLS"           -> GetTLS
      [] a = "GetLoadConfig"    -> GetLoadConfig
      [] a = "GetBoundImport"   -> GetBoundImport
      [] a = "GetDelayImport"   -> GetDelayImport
      [] a = "GetCOMDescriptor" -> GetCOMDescriptor

----------------------------------------------------------------------------
(* Ilibpe::FlatResources, over the tree GetResources points to.  A row is  *)
(* a PEResFlat: TypeStr/TypeID, NameStr/NameID, LangStr/LangID and Data.   *)

NameIsString(e)    == HighBit(e.Name)
DataIsDirectory(e) == HighBit(e.OffsetToData)

\* PEResFlat stRes{ }
NoResFlat ==
    [TypeStr |-> <<>>, TypeID |-> 0, NameStr |-> <<>>, NameID |-> 0,
     LangStr |-> <<>>, LangID |-> 0, Data |-> <<>>]

\* stRes after an entry gave it its name: the string member when
\* NameIsString, the id member (the low WORD of Name) when not; the other
\* member stays as it was
FlatNamed(stRes, e, str, id) ==
    IF NameIsString(e) THEN [stRes EXCEPT ![str] = e.wstrName]
    ELSE [stRes EXCEPT ![id] = e.Name[2]]

\* the row emplaced without "stRes.Data = RawResData"
FlatLeaf_NoData(stRes, e) == stRes

\* stRes.Data = RawResData: the row of a leaf
FlatLeaf(stRes, e) == [stRes EXCEPT !.Data = e.raw]

\* the loop over the entries of a level-3 directory; the result is stRes and
\* vecData after it
RECURSIVE FlatLvL3(_, _, _, _)
FlatLvL3(ents, k, stRes, vecData) ==
    IF k > Len(ents) THEN [stRes |-> stRes, vecData |-> vecData]
    ELSE FlatLvL3(ents, k + 1, FlatLeaf(FlatNamed(stRes, ents[k], "LangStr", "LangID"), ents[k]),
                  Append(vecData, FlatLeaf(FlatNamed(stRes, ents[k], "LangStr", "LangID"),
                                           ents[k])))

\* the loop over the entries of a level-2 directory
RECURSIVE FlatLvL2(_, _, _, _)
FlatLvL2(ents, j, stRes, vecData) ==
    LET named == FlatNamed(stRes, ents[j], "NameStr", "NameID")
        Go(r) == FlatLvL2(ents, j + 1, r.stRes, r.vecData)
    IN  IF j > Len(ents) THEN [stRes |-> stRes, vecData |-> vecData]
        ELSE IF DataIsDirectory(ents[j])
        THEN Go(FlatLvL3(ents[j].child.ents, 1, named, vecData))
        ELSE Go([stRes |-> FlatLeaf(named, ents[j]),
                 vecData |-> Append(vecData, FlatLeaf(named, ents[j]))])

\* the loop over the root's entries, each with a PEResFlat of its own
RECURSIVE FlatRoot(_, _, _)
FlatRoot(ents, i, vecData) ==
    LET typed == FlatNamed(NoResFlat, ents[i], "TypeStr", "TypeID")
    IN  IF i > Len(ents) THEN vecData
        ELSE IF DataIsDirectory(ents[i])
        THEN FlatRoot(ents, i + 1, FlatLvL2(ents[i].child.ents, 1, typed, vecData).vecData)
        ELSE FlatRoot(ents, i + 1, Append(vecData, FlatLeaf(typed, ents[i])))

FlatResources(stResRoot) == FlatRoot(stResRoot.ents, 1, <<>>)

MaxFlatCalls == 2    \* the calls of FlatResources followed after a load

\* the client flattens the tree GetResources points to
CallFlatResources ==
    /\ ~crashed
    /\ GetResources # Null
    /\ Len(flat) < MaxFlatCalls
    /\ flat' = Append(flat, FlatResources(m_rec.resource))
    /\ UNCHANGED <<win64, m_ptr, m_fLoaded, m_spnData, m_pNTHeader32, m_pNTHeader64,
                   m_stFileInfo, m_rec, lastLoad, oobRead, crashed>>

Next ==
    \/ \E f \in Files : LoadPeFile(f)
    \/ \E b \in Buffers : LoadPeSpan(b)
    \/ Clear

Spec == Init /\ [][Next]_vars

----------------------------------------------------------------------------
(* The properties.  lastLoad speaks of the most recent call of LoadPe(span) *)
(* with no Clear since; OnView of one whose span was the Model's own view.  *)

OnView == lastLoad.called /\ lastLoad.same

\* the code the contract names for a buffer b: too small below 64 bytes, no
\* DOS header when its first WORD is not "MZ", success otherwise
ContractCode(b) ==
    IF b.size < 64 THEN "ERR_FILE_SIZESMALL"
    ELSE IF MemByte(b, 0) + W8 * MemByte(b, 1) # 23117 THEN "ERR_FILE_NODOSHDR"
    ELSE "PEOK"

\* C1: a load of a buffer of 64 bytes or more reads nothing outside the
\* buffer, and returns ERR_FILE_NODOSHDR or PEOK.
C1_ReadsStayInside ==
    (OnView /\ lastLoad.buf.size >= 64)
        => (~oobRead /\ lastLoad.ret \in {"ERR_FILE_NODOSHDR", "PEOK"})

\* C2: a load returns ERR_FILE_SIZESMALL iff the buffer is below 64 bytes,
\* else ERR_FILE_NODOSHDR iff e_magic is not 0x5A4D, else PEOK, whatever the
\* later parsers meet.  Stated of the loads that read inside their buffer.
C2_ReturnCode ==
    (lastLoad.called /\ ~oobRead) => lastLoad.ret = ContractCode(lastLoad.buf)

\* C3: IsLoaded is true exactly when the most recent LoadPe returned PEOK
\* with no Clear since, and GetFileInfo is null exactly when IsLoaded is false.
C3_LoadedIffLastOk ==
    ~crashed =>
        /\ IsLoaded <=> (lastLoad.called /\ lastLoad.ret = "PEOK")
        /\ (GetFileInfo = Null) <=> ~IsLoaded

\* C3, its case: a Model that had loaded the image pe32 was given a buffer
\* with no DOS header, and is not loaded.
C3_FailedReload ==
    /\ ~crashed
    /\ m_ptr.id = <<"pe32", 0>>
    /\ lastLoad.called /\ lastLoad.ret = "ERR_FILE_NODOSHDR"
    /\ ~IsLoaded /\ GetFileInfo = Null

\* ParseNTFileOptHeader returns false on buffer b, whatever lies outside it
NtParseFails(b) ==
    \A w \in Wild :
        ~ParseNTFileOptHeader(Cx(win64, b, b, TRUE, w),
                              [fi |-> NoFileInfo, nt32 |-> Zero, nt64 |-> Zero,
                               rec |-> NoRecords, oob |-> FALSE, hang |-> FALSE,
                               ub |-> FALSE]).ret

\* C4: when the DOS header is valid and NT parsing fails, the load returns PEOK
\* with HasDosHdr set and HasNTHdr, IsPE32, IsPE64, HasDataDirs, HasSections
\* and every directory flag clear.
C4_NtFailureLeavesDosOnly ==
    (OnView /\ ContractCode(lastLoad.buf) = "PEOK" /\ NtParseFails(lastLoad.buf))
        => /\ lastLoad.ret = "PEOK"
           /\ m_stFileInfo["HasDosHdr"]
           /\ \A n \in FlagNames \ {"HasDosHdr", "HasRichHdr"} : ~m_stFileInfo[n]

FreshLoad(buf, same, w) ==
    LoadPe(Cx(win64, IF same THEN buf ELSE NoFile, buf, same, w), NewModel)

\* C6: after any history, the return code, IsLoaded, every flag and every
\* record after LoadPe(B) are those a freshly constructed Model has after
\* LoadPe(B).
C6_SameAsFresh ==
    (lastLoad.called /\ ~crashed) =>
        \E w \in Wild :
            \E r \in {FreshLoad(lastLoad.buf, lastLoad.same, w)} :
                /\ ~r.hang /\ r.ret = lastLoad.ret
                /\ r.m.fLoaded = m_fLoaded /\ r.m.fi = m_stFileInfo /\ r.m.rec = m_rec

\* C7: IsPE32 and IsPE64 are never both set; exactly one is set when HasNTHdr
\* is, and neither when it is not.
C7_OneVariant ==
    /\ ~(m_stFileInfo["IsPE32"] /\ m_stFileInfo["IsPE64"])
    /\ m_stFileInfo["HasNTHdr"] => (m_stFileInfo["IsPE32"] \/ m_stFileInfo["IsPE64"])
    /\ ~m_stFileInfo["HasNTHdr"] => (~m_stFileInfo["IsPE32"] /\ ~m_stFileInfo["IsPE64"])

\* C7, its case: the Model holds a loaded PE32+ image
C7_ReloadedOtherVariant ==
    /\ ~crashed /\ m_fLoaded
    /\ lastLoad.buf.id = <<"pe64", 0>>
    /\ m_stFileInfo["HasNTHdr"] /\ m_stFileInfo["IsPE64"] /\ ~m_stFileInfo["IsPE32"]

\* the file offsets the records hold
RecordedOffsets ==
    {m_rec.nt.dwOffset, m_rec.export.dwOffset, m_rec.resource.dwOffset,
     m_rec.tls.dwOffset, m_rec.lcd.dwOffset, m_rec.cor20.dwOffset}
    \cup {m_rec.rich[i].dwOffset : i \in DOMAIN m_rec.rich}
    \cup {m_rec.secs[i].dwOffset : i \in DOMAIN m_rec.secs}
    \cup {m_rec.import[i].dwOffset : i \in DOMAIN m_rec.import}
    \cup {m_rec.exception[i].dwOffset : i \in DOMAIN m_rec.exception}
    \cup {m_rec.security[i].dwOffset : i \in DOMAIN m_rec.security}
    \cup {m_rec.debug[i].dwOffset : i \in DOMAIN m_rec.debug}

\* C8: after a load every file offset held in a record is below the size of
\* the file; none is taken from a pointer equal to the end of the buffer.
C8_OffsetsInsideFile ==
    (OnView /\ ~crashed /\ m_fLoaded)
        => \A o \in RecordedOffsets : BLt(o, Num(m_spnData.size))

\* the parsed sections that hold RVA r: VirtualAddress <= r < VirtualAddress
\* + VirtualSize, the sum not reduced modulo 2^32
Holders(r) ==
    {i \in DOMAIN m_rec.secs :
        /\ BLe(m_rec.secs[i].VirtualAddress, r)
        /\ BLt(r, BAdd(m_rec.secs[i].VirtualAddress, m_rec.secs[i].VirtualSize))}

\* r - VirtualAddress + PointerToRawData in the one section holding r when
\* that is below the file's size; failure (0) otherwise, and for an r in no section
ContractOffset(r) ==
    IF Cardinality(Holders(r)) # 1 THEN Zero
    ELSE LET h == m_rec.secs[CHOOSE i \in Holders(r) : TRUE]
             o == BAdd(BSub(r, h.VirtualAddress), h.PointerToRawData)
         IN  IF BLt(o, Num(m_spnData.size)) THEN o ELSE Zero

\* C9: after a successful load, GetOffsetFromRVA(r) is r - VirtualAddress +
\* PointerToRawData for an r in exactly one parsed section when that is a
\* valid offset (below the file's size), and failure otherwise and for an r in
\* no section, for every 32-bit value of the section's fields.
C9_OffsetFromRva ==
    (OnView /\ ~crashed /\ m_fLoaded)
        => \A r \in Rvas :
               Cardinality(Holders(r)) <= 1 => GetOffsetFromRVA(r) = ContractOffset(r)

\* the directories found through RVAToPtr, each with its presence flag
RvaDirectories ==
    {<<IMAGE_DIRECTORY_ENTRY_EXPORT, "HasExport">>,
     <<IMAGE_DIRECTORY_ENTRY_IMPORT, "HasImport">>,
     <<IMAGE_DIRECTORY_ENTRY_RESOURCE, "HasResource">>,
     <<IMAGE_DIRECTORY_ENTRY_EXCEPTION, "HasException">>,
     <<IMAGE_DIRECTORY_ENTRY_BASERELOC, "HasReloc">>,
     <<IMAGE_DIRECTORY_ENTRY_GLOBALPTR, "HasGlobalPtr">>,
     <<IMAGE_DIRECTORY_ENTRY_LOAD_CONFIG, "HasLoadCFG">>,
     <<IMAGE_DIRECTORY_ENTRY_BOUND_IMPORT, "HasBoundImp">>,
     <<IMAGE_DIRECTORY_ENTRY_IAT, "HasIAT">>,
     <<IMAGE_DIRECTORY_ENTRY_DELAY_IMPORT, "HasDelayImp">>,
     <<IMAGE_DIRECTORY_ENTRY_COM_DESCRIPTOR, "HasCOMDescr">>}

\* C10: a directory found through RVAToPtr whose entry's RVA is 0, or lies
\* in no section, has its presence flag clear after the load, which returns PEOK.
C10_ZeroRvaIsAbsent ==
    (OnView /\ ~crashed /\ m_fLoaded /\ Len(m_rec.dataDirs) = MaxDataDirs)
        => /\ lastLoad.ret = "PEOK"
           /\ \A d \in RvaDirectories :
                 LET rva == m_rec.dataDirs[d[1] + 1].VirtualAddress
                 IN  (rva = Zero \/ Holders(rva) = {}) => ~m_stFileInfo[d[2]]

----------------------------------------------------------------------------
(* Resource images.  The section holds, from its start: the root directory *)
(* (entries at +16 and +24), a level-2 directory at +32 (entry at +48), a  *)
(* level-3 directory at +64 (entry at +80), a data entry at +96, a name    *)
(* string at +112 and raw data at +128 and in the last four bytes of the   *)
(* file.                                                                   *)

ResDir(o)  == <<W16 \div 2, o>>          \* DataIsDirectory, OffsetToDirectory o
ResData    == <<0, 96>>                  \* OffsetToData of the data entry
ResRawRva  == BAdd(SecVA, Num(128))      \* the raw data inside the file
ResEndRva  == BAdd(SecVA, Num(ImgSize - RawAt - 4))  \* its last four bytes

\* a resource image: r gives the build of the image, the number of root
\* entries, OffsetToData of the entry of each level, whether the level-1
\* entry is named, and the data entry
ResImage(r) ==
    Image("res", r, r.pe64, ImgSize, SecVA,
          DirEnt(NtAt, r.pe64, IMAGE_DIRECTORY_ENTRY_RESOURCE, SecVA, Num(256))
          @@ PutW(RawAt + OffResIdEntries, r.n1)
          @@ PutD(RawAt + 16, IF r.named THEN <<W16 \div 2, 112>> ELSE Num(1))
          @@ PutD(RawAt + 20, r.l1)
          @@ PutD(RawAt + 24, Num(9)) @@ PutD(RawAt + 28, ResData)
          @@ PutW(RawAt + 32 + OffResIdEntries, 1)
          @@ PutD(RawAt + 48, Num(2)) @@ PutD(RawAt + 52, r.l2)
          @@ PutW(RawAt + 64 + OffResIdEntries, 1)
          @@ PutD(RawAt + 80, Num(3)) @@ PutD(RawAt + 84, r.l3)
          @@ PutD(RawAt + 96, r.rva) @@ PutD(RawAt + 100, r.size)
          @@ PutW(RawAt + 112, 1) @@ PutW(RawAt + 114, 65)
          @@ PutS(RawAt + 128, <<1, 2, 3, 4>>)
          @@ PutS(ImgSize - 4, <<5, 6, 7, 8>>))

\* the data entries tried: inside the file, its last bytes, past its end,
\* a size that wraps a 32-bit pointer, an empty one at the end, no section
ResSpans ==
    {<<ResRawRva, Num(4)>>, <<ResEndRva, Num(4)>>, <<ResEndRva, Num(8)>>,
     <<ResRawRva, <<W16 - 1, W16 - 16>>>>, <<BAdd(ResEndRva, Num(4)), Zero>>,
     <<<<0, 36864>>, Num(4)>>}

ResShape(pe64, n1, l1, l2, l3, named, span) ==
    [pe64 |-> pe64, n1 |-> n1, l1 |-> l1, l2 |-> l2, l3 |-> l3, named |-> named,
     rva |-> span[1], size |-> span[2]]

ResShapes ==
    \* three levels down to each data entry
    {ResShape(FALSE, 1, ResDir(32), ResDir(64), ResData, FALSE, s) : s \in ResSpans}
    \* a level-2 entry that is a leaf, or a directory that is an ancestor
    \cup {ResShape(FALSE, 1, ResDir(32), l2, ResData, FALSE, <<ResRawRva, Num(4)>>) :
            l2 \in {ResData, ResDir(32), ResDir(0), ResDir(2048)}}
    \* a level-1 entry that is a leaf, or the root again, or outside the file
    \cup {ResShape(FALSE, 2, l1, ResDir(64), ResData, FALSE, <<ResRawRva, Num(4)>>) :
            l1 \in {ResData, ResDir(0), ResDir(2048)}}
    \* a level-3 entry with the directory bit, a named entry, two root
    \* entries, a PE32+ image
    \cup {ResShape(FALSE, 1, ResDir(32), ResDir(64), ResDir(32), FALSE, <<ResRawRva, Num(4)>>),
          ResShape(FALSE, 1, ResDir(32), ResDir(64), ResData, TRUE, <<ResRawRva, Num(4)>>),
          ResShape(FALSE, 2, ResDir(32), ResDir(64), ResData, FALSE, <<ResEndRva, Num(4)>>),
          ResShape(TRUE, 1, ResDir(32), ResDir(64), ResData, FALSE, <<ResRawRva, Num(4)>>)}

ResFiles == {ResImage(r) : r \in ResShapes}

\* the caller's buffers of the resource runs: no NT signature, and a whole image
ResBuffers ==
    {File("nosig", ImgSize, DosHdr(Num(NtAt))),
     ResImage(ResShape(FALSE, 1, ResData, ResData, ResData, FALSE, <<ResRawRva, Num(4)>>))}

NextRes ==
    \/ \E f \in ResFiles : LoadPeFile(f)
    \/ \E b \in ResBuffers : LoadPeSpan(b)
    \/ Clear

SpecRes == Init /\ [][NextRes]_vars

\* the resource tree recorded by a load that returned
ResRoot == m_rec.resource
ResLoaded == lastLoad.called /\ ~crashed /\ m_fLoaded /\ ResRoot.set

\* the directories recorded at level 2 and at level 3, each with the entry
\* that leads to it and the directory that entry is in
ResLvl2 == {<<e, ResRoot>> : e \in {ResRoot.ents[i] : i \in DOMAIN ResRoot.ents}}
ResLvl3 ==
    UNION {{<<e, d[1].child, d[1]>> : e \in {d[1].child.ents[j] : j \in DOMAIN d[1].child.ents}}
           : d \in ResLvl2}
\* every entry recorded, of any level
ResEntries ==
    {d[1] : d \in ResLvl2} \cup {d[1] : d \in ResLvl3}
    \cup UNION {{d[1].child.ents[k] : k \in DOMAIN d[1].child.ents} : d \in ResLvl3}

\* C11: the resource walk ends, no directory holding more entries than its
\* header counts, and records nothing below level 3; a level-2 directory
\* at the root's address, and a level-3 directory at the root's or at its
\* level-2 parent's, is recorded as a directory and has no entries.
C11_ResourceWalkBounded ==
    ResLoaded
        => /\ Len(ResRoot.ents) <= ResRoot.n
           /\ \A d \in ResLvl2 :
                 /\ Len(d[1].child.ents) <= d[1].child.n
                 /\ (HighBit(d[1].OffsetToData) /\ Low31(d[1].OffsetToData) = Zero)
                       => (d[1].child.set /\ d[1].child.ents = <<>>
                           /\ d[1].child.dwOffset = ResRoot.dwOffset)
           /\ \A d \in ResLvl3 :
                 /\ Len(d[1].child.ents) <= d[1].child.n
                 /\ (HighBit(d[1].OffsetToData)
                     /\ Low31(d[1].OffsetToData) \in {Zero, Low31(d[3].OffsetToData)})
                       => (d[1].child.set /\ d[1].child.ents = <<>>
                           /\ d[1].child.dwOffset \in {ResRoot.dwOffset, d[2].dwOffset})
                 /\ \A k \in DOMAIN d[1].child.ents : ~d[1].child.ents[k].child.set

\* a level-3 directory at the address of its level-2 parent was recorded,
\* next to a level-2 directory that was descended into
C11_Witness ==
    /\ ResLoaded
    /\ \E d \in ResLvl3 :
          /\ d[1].child.set /\ d[1].child.dwOffset = d[2].dwOffset
          /\ d[1].child.n > 0 /\ d[1].child.ents = <<>>

\* the file offset the section table gives RVA r: r - VirtualAddress +
\* PointerToRawData in each recorded section that holds r
ResOffsets(r) ==
    {BAdd(BSub(r, m_rec.secs[i].VirtualAddress), m_rec.secs[i].PointerToRawData)
        : i \in Holders(r)}

\* C12: the raw bytes of a resource leaf, when not empty, are the Size
\* bytes of the buffer at the file offset of the RVA of its data entry, and
\* that range ends inside the buffer.
C12_LeafBytesFromBuffer ==
    ResLoaded
        => \A e \in ResEntries :
              e.raw # <<>>
                 => /\ Len(e.raw) = Small(e.data.Size)
                    /\ \E p \in ResOffsets(e.data.OffsetToData) :
                          /\ BLe(BAdd(p, e.data.Size), Num(m_spnData.size))
                          /\ e.raw = [k \in 1 .. Len(e.raw) |->
                                         MemByte(m_spnData, Small(p) + k - 1)]

\* the same of the loads whose span is the Model's own view
C12_OnView == OnView => C12_LeafBytesFromBuffer

----------------------------------------------------------------------------
(* Import images.  The section holds, from its start: two descriptors and  *)
(* their terminator, the module name "k" at +64, a thunk array at +80 and  *)
(* one at +112, an IMAGE_IMPORT_BY_NAME (hint 7, name "f") at +144; the    *)
(* file ends with thunks that no zero thunk follows.                       *)

HighVA     == <<W16 \div 2, 4096>>       \* a section at RVA 0x80001000
ImpName    == <<102>>                    \* "f"
ImpDll     == <<107>>                    \* "k"
OrdThunk(n) == <<W16 \div 2, n>>         \* IMAGE_ORDINAL_FLAG32 | n

\* thunks, each a pair of its low and its high DWORD, laid out from o on
RECURSIVE PutThunks(_, _, _)
PutThunks(o, pe64, ts) ==
    IF ts = <<>> THEN PutD(o, Zero)
    ELSE IF pe64
    THEN PutD(o, ts[1][1]) @@ PutD(o + 4, ts[1][2]) @@ PutThunks(o + 8, pe64, Tail(ts))
    ELSE PutD(o, ts[1][1]) @@ PutThunks(o + 4, pe64, Tail(ts))

\* an import image: r gives the build of the image, the RVA of its section,
\* OriginalFirstThunk and FirstThunk of the first descriptor (offsets into
\* the section, 0 for none), whether a second descriptor follows, and the
\* thunks of the two arrays
ImpImage(r) ==
    LET Rva(o) == IF o = 0 THEN Zero ELSE BAdd(r.va, Num(o))
    IN  Image("imp", r, r.pe64, ImgSize, r.va,
              DirEnt(NtAt, r.pe64, IMAGE_DIRECTORY_ENTRY_IMPORT, r.va, Num(60))
              @@ PutD(RawAt, Rva(r.oft))
              @@ PutD(RawAt + OffImpName, Rva(64))
              @@ PutD(RawAt + OffImpFirstThunk, Rva(r.ft))
              @@ PutD(RawAt + SizeofImportDescriptor + OffImpName, IF r.two THEN Rva(64) ELSE Zero)
              @@ PutD(RawAt + SizeofImportDescriptor + OffImpFirstThunk,
                      IF r.two THEN Rva(112) ELSE Zero)
              @@ PutS(RawAt + 64, ImpDll)
              @@ PutThunks(RawAt + 80, r.pe64, r.ot)
              @@ PutThunks(RawAt + 112, r.pe64, r.ftk)
              @@ PutW(RawAt + 144, 7) @@ PutS(RawAt + 146, ImpName)
              @@ PutD(ImgSize - 8, Num(144))
              @@ PutD(ImgSize - 4, IF r.pe64 THEN Zero ELSE Num(144)))

ImpShape(pe64, va, oft, ft, two, ot, ftk) ==
    [pe64 |-> pe64, va |-> va, oft |-> oft, ft |-> ft, two |-> two, ot |-> ot, ftk |-> ftk]

\* the thunk of the name at +144 of a section at va, and thunks above 2^32
ByName(va)  == <<BAdd(va, Num(144)), Zero>>
Ord63(n)    == <<Num(n), <<W16 \div 2, 0>>>>
Above32(va) == <<BAdd(va, Num(144)), Num(1)>>

ImpShapes ==
    \* both arrays, differing; FirstThunk alone; neither, before a second
    \* descriptor; an OriginalFirstThunk in no section
    {ImpShape(b, SecVA, o[1], o[2], o[3], <<ByName(SecVA), <<OrdThunk(5), Zero>>>>,
              <<<<OrdThunk(9), Zero>>>>)
        : b \in BOOLEAN,
          o \in {<<80, 112, FALSE>>, <<0, 112, FALSE>>, <<0, 0, TRUE>>, <<80, 0, TRUE>>,
                 <<32768, 112, TRUE>>}}
    \* a section at an RVA above 2^31, and thunks with bits above bit 31
    \cup {ImpShape(b, HighVA, 80, 112, FALSE, <<ByName(HighVA)>>, <<ByName(HighVA)>>)
            : b \in BOOLEAN}
    \cup {ImpShape(TRUE, SecVA, 80, 112, FALSE, <<Ord63(5), Above32(SecVA)>>,
                   <<ByName(SecVA)>>)}

\* a module with one ordinal thunk, and behind it a descriptor whose
\* FirstThunk lies in no section
ImpStrayImage(pe64) ==
    Image("impstray", pe64, pe64, ImgSize, SecVA,
          DirEnt(NtAt, pe64, IMAGE_DIRECTORY_ENTRY_IMPORT, SecVA, Num(60))
          @@ PutD(RawAt, BAdd(SecVA, Num(80)))
          @@ PutD(RawAt + OffImpName, BAdd(SecVA, Num(64)))
          @@ PutD(RawAt + SizeofImportDescriptor + OffImpName, BAdd(SecVA, Num(64)))
          @@ PutD(RawAt + SizeofImportDescriptor + OffImpFirstThunk, <<0, 36864>>)
          @@ PutS(RawAt + 64, ImpDll)
          @@ PutThunks(RawAt + 80, pe64, <<<<OrdThunk(5), Zero>>>>))

ImpFiles == {ImpImage(r) : r \in ImpShapes} \cup {ImpStrayImage(b) : b \in BOOLEAN}

\* the caller's buffers of the import runs: no NT signature, and a whole image
ImpBuffers ==
    {File("nosig", ImgSize, DosHdr(Num(NtAt))),
     ImpImage(ImpShape(FALSE, SecVA, 0, 112, FALSE, <<>>, <<ByName(SecVA)>>))}

NextImp ==
    \/ \E f \in ImpFiles : LoadPeFile(f)
    \/ \E b \in ImpBuffers : LoadPeSpan(b)
    \/ Clear

SpecImp == Init /\ [][NextImp]_vars

\* the modules recorded by a load that returned
ImpLoaded == lastLoad.called /\ ~crashed /\ m_fLoaded /\ m_stFileInfo["HasImport"]
ImpModules == {m_rec.import[i] : i \in DOMAIN m_rec.import}

\* the DWORD and the thunk at offset o of the view (both DWORDs of a thunk
\* of a PE32+ image, the low one of a PE32 image)
ViewD(o) ==
    <<MemByte(m_ptr, o + 2) + W8 * MemByte(m_ptr, o + 3),
      MemByte(m_ptr, o) + W8 * MemByte(m_ptr, o + 1)>>
ViewThunk(o) ==
    [lo |-> ViewD(o), hi |-> IF m_stFileInfo["IsPE64"] THEN ViewD(o + 4) ELSE Zero]
ThunkWidth == IF m_stFileInfo["IsPE64"] THEN SizeofThunk64 ELSE SizeofThunk32

\* C13: every module recorded has OriginalFirstThunk or FirstThunk set, and
\* its functions are, in order, the thunks of the array at
\* OriginalFirstThunk when that is not zero and of the one at FirstThunk
\* when it is, none recorded only when that array starts with a zero thunk.
C13_ThunkArrayChoice ==
    ImpLoaded
        => \A m \in ImpModules :
              LET rva == IF m.OriginalFirstThunk # Zero THEN m.OriginalFirstThunk
                         ELSE m.FirstThunk
              IN  /\ rva # Zero
                  /\ m.Name # Zero
                  /\ \A o \in ResOffsets(rva) :
                        /\ \A k \in DOMAIN m.funcs :
                              Small(o) + ThunkWidth * k <= m_ptr.size
                                 => m.funcs[k].thunk = ViewThunk(Small(o) + ThunkWidth * (k - 1))
                        /\ (m.funcs = <<>> /\ Small(o) + ThunkWidth <= m_ptr.size)
                              => ViewThunk(Small(o)) = [lo |-> Zero, hi |-> Zero]

\* a module with both fields set was recorded with the two functions of the
\* array at OriginalFirstThunk, the array at FirstThunk holding another one
C13_Witness ==
    /\ ImpLoaded
    /\ \E m \in ImpModules :
          /\ m.OriginalFirstThunk # Zero /\ m.FirstThunk # Zero
          /\ Len(m.funcs) = 2 /\ m.funcs[1].name = ImpName
          /\ \A o \in ResOffsets(m.FirstThunk) : ViewThunk(Small(o)) # m.funcs[1].thunk

\* the NUL-terminated string at offset o of the view, of MAX_PATH bytes at most
ViewStr(o) ==
    UpToNul([k \in 1 .. (IF m_ptr.size - o < MAX_PATH THEN m_ptr.size - o ELSE MAX_PATH)
                |-> MemByte(m_ptr, o + k - 1)])

\* the ordinal flag of a recorded thunk: bit 31 of a PE32 thunk, bit 63 of a
\* PE32+ thunk
OrdinalFlag(t) == IF m_stFileInfo["IsPE64"] THEN HighBit(t.hi) ELSE HighBit(t.lo)

\* C15: a recorded function whose thunk has the ordinal flag of its format
\* (bit 31 in PE32, bit 63 in PE32+) has no hint and no name; one without
\* the flag has the hint and the name of the IMAGE_IMPORT_BY_NAME at its
\* AddressOfData, when that lies in a section and inside the image.
C15_OrdinalFlagPerBitness ==
    ImpLoaded
        => \A m \in ImpModules : \A k \in DOMAIN m.funcs :
              LET f == m.funcs[k]
              IN  IF OrdinalFlag(f.thunk)
                  THEN f.name = <<>> /\ f.hint = 0
                  ELSE f.thunk.hi = Zero
                          => \A o \in ResOffsets(f.thunk.lo) :
                                Small(o) + 3 <= m_ptr.size
                                   => /\ f.name = ViewStr(Small(o) + 2)
                                      /\ f.hint = ViewD(Small(o))[2]

\* the same of PE32 images, whose flag is the bit the code tests
C15_PE32 == m_stFileInfo["IsPE32"] => C15_OrdinalFlagPerBitness

----------------------------------------------------------------------------
(* Long thunk arrays: images of BigSize bytes whose one descriptor has its *)
(* array at +256 of the section, n thunks IMAGE_ORDINAL_FLAG32 | 1 and the *)
(* zero thunk after them.                                                  *)

BigSize == 24 * ImgSize

ImpBig(pe64, n) ==
    [ImpImage(ImpShape(pe64, SecVA, 256, 0, FALSE, <<>>, <<>>))
        EXCEPT !.size = BigSize,
               !.id   = <<"impbig", n>>,
               !.fill = [at  |-> RawAt + 256,
                         len |-> n * (IF pe64 THEN SizeofThunk64 ELSE SizeofThunk32),
                         pat |-> IF pe64 THEN <<1, 0, 0, W8 \div 2, 0, 0, 0, 0>>
                                 ELSE <<1, 0, 0, W8 \div 2>>]]

\* one thunk more than each variant's loop lets through, next to short
\* arrays and to arrays that run to the end of the file
BigFiles ==
    {ImpBig(FALSE, iMaxFuncs + 1), ImpBig(TRUE, iMaxFuncs \div 2 + 1)}
    \cup {ImpImage(ImpShape(b, SecVA, o, 112, FALSE, <<ByName(SecVA), <<OrdThunk(5), Zero>>>>,
                            <<<<OrdThunk(9), Zero>>>>))
            : b \in BOOLEAN, o \in {80, ImgSize - RawAt - 8}}

NextBig ==
    \/ \E f \in BigFiles : LoadPeFile(f)
    \/ \E b \in {File("nosig", ImgSize, DosHdr(Num(NtAt)))} : LoadPeSpan(b)
    \/ Clear

SpecBig == Init /\ [][NextBig]_vars

\* the number of thunks before the zero thunk of the array at offset o of
\* the view, counted from k on; -1 when the view ends before a zero thunk
RECURSIVE ViewArrayLen(_, _)
ViewArrayLen(o, k) ==
    LET Z(j)   == ViewThunk(o + ThunkWidth * j) = [lo |-> Zero, hi |-> Zero]
        Out(j) == o + ThunkWidth * (j + 1) > m_ptr.size
        Hit(j) == Z(j) \/ Out(j)
        First(j) == IF Out(j) THEN 0 - 1 ELSE j
    IN  IF \E j \in k .. k + 255 : Hit(j)
        THEN First(CHOOSE j \in k .. k + 255 : Hit(j) /\ \A i \in k .. j - 1 : ~Hit(i))
        ELSE ViewArrayLen(o, k + 256)

\* C14: a load records 1000 modules at most, and of a module whose thunk
\* array lies inside the image with n thunks before its zero thunk, n
\* functions, or 5000 when n is more.
C14_ImportCaps ==
    ImpLoaded
        => /\ Len(m_rec.import) <= iMaxModules
           /\ \A m \in ImpModules :
                 \A o \in ResOffsets(IF m.OriginalFirstThunk # Zero THEN m.OriginalFirstThunk
                                     ELSE m.FirstThunk) :
                    LET n == ViewArrayLen(Small(o), 0)
                    IN  n >= 0 => Len(m.funcs) = (IF n < iMaxFuncs THEN n ELSE iMaxFuncs)

\* the same of the loads whose span is the Model's own view, with the cap
\* the doubled increment leaves in PE32+ images: 2500
C14_AsCoded ==
    (ImpLoaded /\ OnView)
        => \A m \in ImpModules :
              \A o \in ResOffsets(IF m.OriginalFirstThunk # Zero THEN m.OriginalFirstThunk
                                  ELSE m.FirstThunk) :
                 LET n   == ViewArrayLen(Small(o), 0)
                     cap == IF m_stFileInfo["IsPE64"] THEN iMaxFuncs \div 2 ELSE iMaxFuncs
                 IN  n >= 0 => Len(m.funcs) = (IF n < cap THEN n ELSE cap)

----------------------------------------------------------------------------
(* Export images.  The section holds, from its start: the export directory,*)
(* the module name "m" at +48, the functions array at +64 (or at r.aof),   *)
(* the names array at +96, the ordinals array at +104, the strings "h" at  *)
(* +112, "n" at +120 and "g" at +128.                                      *)

RECURSIVE PutDs(_, _)
PutDs(o, ds) == IF ds = <<>> THEN PutD(o, Zero) ELSE PutD(o, ds[1]) @@ PutDs(o + 4, Tail(ds))

\* an export image: r gives the build of the image, the size of the
\* directory, NumberOfFunctions, the functions (offsets into the section, 0
\* for RVA 0), the offset of their array, NumberOfNames and the ordinal the
\* one name belongs to
ExpImage(r) ==
    LET Rva(o) == IF o = 0 THEN Zero ELSE BAdd(SecVA, Num(o))
    IN  Image("exp", r, r.pe64, ImgSize, SecVA,
              DirEnt(NtAt, r.pe64, IMAGE_DIRECTORY_ENTRY_EXPORT, SecVA, Num(r.size))
              @@ PutD(RawAt + OffExpName, Rva(48))
              @@ PutD(RawAt + OffNumberOfFunctions, r.nf)
              @@ PutD(RawAt + OffNumberOfNames, Num(r.nn))
              @@ PutD(RawAt + OffAddressOfFunctions, Rva(r.aof))
              @@ PutD(RawAt + OffAddressOfNames, Rva(96))
              @@ PutD(RawAt + OffAddressOfNameOrdinals, Rva(104))
              @@ PutS(RawAt + 48, <<109>>)
              @@ PutDs(RawAt + r.aof, [i \in DOMAIN r.fs |-> Rva(r.fs[i])])
              @@ PutD(RawAt + 96, Rva(120))
              @@ PutW(RawAt + 104, r.ord)
              @@ PutS(RawAt + 112, <<104>>) @@ PutS(RawAt + 120, <<110>>)
              @@ PutS(RawAt + 128, <<103>>))

ExpShape(pe64, size, nf, fs, aof, nn, ord) ==
    [pe64 |-> pe64, size |-> size, nf |-> nf, fs |-> fs, aof |-> aof, nn |-> nn, ord |-> ord]

ExpShapes ==
    \* a function outside the directory, a zero RVA, and functions inside the
    \* directory and at its end, the directory ending at +128 or before
    {ExpShape(b, size, Num(Len(fs)), fs, 64, 1, 2)
        : b \in BOOLEAN, size \in {120, 128}, fs \in {<<200, 0, 112>>, <<200, 0, 112, 128>>}}
    \* no function, no name, a name for a zero RVA; NumberOfFunctions beyond
    \* the file; an array that ends two bytes after the file
    \cup {ExpShape(FALSE, 128, Zero, <<>>, 64, 1, 0),
          ExpShape(FALSE, 128, Num(3), <<200, 0, 112>>, 64, 0, 0),
          ExpShape(FALSE, 128, Num(3), <<200, 0, 112>>, 64, 1, 1),
          ExpShape(FALSE, 128, <<W16 - 1, W16 - 1>>, <<200, 0, 112>>, 64, 1, 0),
          ExpShape(FALSE, 128, Num(2), <<200>>, ImgSize - RawAt - 6, 1, 0)}

ExpFiles == {ExpImage(r) : r \in ExpShapes}

\* the caller's buffers of the export runs: no NT signature, and a whole image
ExpBuffers ==
    {File("nosig", ImgSize, DosHdr(Num(NtAt))),
     ExpImage(ExpShape(FALSE, 128, Num(1), <<200>>, 64, 0, 0))}

NextExp ==
    \/ \E f \in ExpFiles : LoadPeFile(f)
    \/ \E b \in ExpBuffers : LoadPeSpan(b)
    \/ Clear

SpecExp == Init /\ [][NextExp]_vars

\* the export table recorded by a load that returned
ExpLoaded == lastLoad.called /\ ~crashed /\ m_fLoaded /\ m_stFileInfo["HasExport"]
ExpFuncs == m_rec.export.vecFuncs
\* the directory's own range, from the data directory recorded
ExpStart == m_rec.dataDirs[IMAGE_DIRECTORY_ENTRY_EXPORT + 1].VirtualAddress
ExpSize  == m_rec.dataDirs[IMAGE_DIRECTORY_ENTRY_EXPORT + 1].Size

\* the indices below NumberOfFunctions whose entry of the functions array,
\* at offset o of the view, lies inside the view and is not zero
ExpIndices(o) ==
    {i \in 0 .. m_ptr.size \div 4 :
        /\ BLt(Num(i), m_rec.export.NumberOfFunctions)
        /\ o + 4 * i + 4 <= m_ptr.size
        /\ ViewD(o + 4 * i) # Zero}

\* one function recorded for each such index and for no other, in the order
\* of the indices, with the RVA of its entry
ExpOnePerIndex ==
    \A o \in ResOffsets(m_rec.export.AddressOfFunctions) :
       /\ \A i \in ExpIndices(Small(o)) :
             /\ Cardinality({k \in DOMAIN ExpFuncs : ExpFuncs[k].dwOrdinal = i}) = 1
             /\ \A k \in DOMAIN ExpFuncs :
                   ExpFuncs[k].dwOrdinal = i
                      => ExpFuncs[k].dwFuncRVA = ViewD(Small(o) + 4 * i)
       /\ \A k \in DOMAIN ExpFuncs : ExpFuncs[k].dwOrdinal \in ExpIndices(Small(o))
       /\ \A k, l \in DOMAIN ExpFuncs : k < l => ExpFuncs[k].dwOrdinal < ExpFuncs[l].dwOrdinal

\* RVA f lies in [start, start + size) of the export directory
InExportRange(f) == BLe(ExpStart, f) /\ BLt(f, BAdd(ExpStart, ExpSize))

\* C16: a load records one ExportFunction, with ordinal i, for every index
\* i below NumberOfFunctions whose RVA is not zero, and none for a zero RVA,
\* in the order of the indices; a function has a forwarder name only when
\* its RVA lies in [directory RVA, directory RVA + directory size), and then
\* it is the string at that RVA.
C16_ExportFunctions ==
    ExpLoaded
        => /\ ExpOnePerIndex
           /\ \A k \in DOMAIN ExpFuncs :
                 LET f == ExpFuncs[k].dwFuncRVA
                 IN  /\ ExpFuncs[k].strForwarderName # <<>> => InExportRange(f)
                     /\ InExportRange(f)
                           => \A o \in ResOffsets(f) :
                                 ExpFuncs[k].strForwarderName = ViewStr(Small(o))

\* the same with the end of the range included, as the code tests it, of
\* the loads that stayed inside their buffer
C16_ClosedRange ==
    (ExpLoaded /\ ~oobRead)
        => /\ ExpOnePerIndex
           /\ \A k \in DOMAIN ExpFuncs :
                 LET f == ExpFuncs[k].dwFuncRVA
                 IN  /\ ExpFuncs[k].strForwarderName # <<>>
                           => (InExportRange(f) \/ f = BAdd(ExpStart, ExpSize))
                     /\ (InExportRange(f) \/ f = BAdd(ExpStart, ExpSize))
                           => \A o \in ResOffsets(f) :
                                 ExpFuncs[k].strForwarderName = ViewStr(Small(o))

----------------------------------------------------------------------------
(* Header images.  Three sections: ".text" at 0x1000, ".wrap" whose         *)
(* VirtualAddress + VirtualSize passes 2^32, and ".last" at 0x3000, whose   *)
(* header is the last thing in a file cut after the section table.          *)

WrapName == <<46, 119, 114, 97, 112>>      \* ".wrap"
LastName == <<46, 108, 97, 115, 116>>      \* ".last"
WrapVA   == <<W16 - 1, W16 - 4096>>        \* 0xFFFFF000
LastVA   == <<0, 12288>>                   \* 0x3000

\* the end of a table of n section headers
SecTableEnd(pe64, n) ==
    NtAt + (IF pe64 THEN SizeofNtHeaders64 ELSE SizeofNtHeaders32) + SizeofSectionHeader * n

\* r gives the build of the image, NumberOfRvaAndSizes, and whether the file
\* ends with its section table.  Directories: Security and Architecture 16
\* bytes into ".text", GlobalPtr 16 bytes into ".wrap", IAT 16 bytes into
\* ".last", the COM descriptor in no section, a sixteenth entry in ".text".
DirsImage(r) ==
    FileK("dirs", r, IF r.cut THEN SecTableEnd(r.pe64, 3) ELSE ImgSize,
          PutD(NtAt + (IF r.pe64 THEN OffNumRvaAndSizes64 ELSE OffNumRvaAndSizes32), r.nrva)
          @@ DirEnt(NtAt, r.pe64, IMAGE_DIRECTORY_ENTRY_SECURITY, BAdd(SecVA, Num(16)), Num(16))
          @@ DirEnt(NtAt, r.pe64, IMAGE_DIRECTORY_ENTRY_ARCHITECTURE, BAdd(SecVA, Num(16)), Num(16))
          @@ DirEnt(NtAt, r.pe64, IMAGE_DIRECTORY_ENTRY_GLOBALPTR, BAdd(WrapVA, Num(16)), Num(16))
          @@ DirEnt(NtAt, r.pe64, IMAGE_DIRECTORY_ENTRY_IAT, BAdd(LastVA, Num(16)), Num(16))
          @@ DirEnt(NtAt, r.pe64, IMAGE_DIRECTORY_ENTRY_COM_DESCRIPTOR, <<0, 8192>>, Num(16))
          @@ DirEnt(NtAt, r.pe64, MaxDataDirs, BAdd(SecVA, Num(16)), Num(16))
          @@ DosHdr(Num(NtAt)) @@ NtHdr(NtAt, r.pe64, 3)
          @@ SecHdr(NtAt, r.pe64, 0, TextName, SecVA, <<0, 256>>, Num(RawAt))
          @@ SecHdr(NtAt, r.pe64, 1, WrapName, WrapVA, <<0, 8192>>, Num(RawAt + 256))
          @@ SecHdr(NtAt, r.pe64, 2, LastName, LastVA, <<0, 256>>, Num(RawAt + 384)))

DirsShapes ==
    {[pe64 |-> b, nrva |-> n, cut |-> FALSE]
        : b \in BOOLEAN, n \in {Zero, Num(9), Num(MaxDataDirs), Num(16), <<W16 - 1, W16 - 1>>}}
    \cup {[pe64 |-> b, nrva |-> Num(16), cut |-> TRUE] : b \in BOOLEAN}

\* a table of sections with the given raw names, section k at RVA 0x1000 *
\* (k + 1); the COFF symbol table of nsym symbols at sym, and the string
\* "long" 4 bytes into the string table of a symbol table of one symbol at
\* RawAt
LongName == <<108, 111, 110, 103>>         \* "long"
RECURSIVE SecHdrs(_, _, _)
SecHdrs(pe64, names, k) ==
    IF k >= Len(names) THEN <<>>
    ELSE SecHdr(NtAt, pe64, k, names[k + 1], <<0, 4096 * (k + 1)>>, <<0, 256>>, Num(RawAt))
         @@ SecHdrs(pe64, names, k + 1)
NamesImage(r) ==
    FileK("names", r, ImgSize,
          PutD(NtAt + OffSymbolTable, Num(r.sym)) @@ PutD(NtAt + OffNumberOfSymbols, Num(r.nsym))
          @@ DosHdr(Num(NtAt)) @@ NtHdr(NtAt, r.pe64, Len(r.names))
          @@ SecHdrs(r.pe64, r.names, 0)
          @@ PutS(RawAt + SizeofSymbol + 4, LongName))

Slash4 == <<47, 52>>                       \* "/4"
NamesShapes ==
    \* a short name, a name of 8 bytes, a name of 8 bytes with a NUL inside
    {[pe64 |-> b, sym |-> 0, nsym |-> 0,
      names |-> <<TextName, <<49, 50, 51, 52, 53, 54, 55, 56>>,
                  <<97, 98, 0, 99, 100, 101, 102, 103>>>>] : b \in BOOLEAN}
    \* "/4" with its string inside the file, and outside it
    \cup {[pe64 |-> b, sym |-> RawAt, nsym |-> 1, names |-> <<Slash4, TextName>>]
             : b \in BOOLEAN}
    \cup {[pe64 |-> FALSE, sym |-> ImgSize, nsym |-> 0, names |-> <<Slash4, TextName>>],
    \* "/0" with no symbol table: the string at offset 0 of the file
          [pe64 |-> FALSE, sym |-> 0, nsym |-> 0, names |-> <<<<47, 48>>>>],
    \* "/abc" and "/": a slash and no number
          [pe64 |-> FALSE, sym |-> RawAt, nsym |-> 1,
           names |-> <<TextName, <<47, 97, 98, 99>>, WrapName>>],
          [pe64 |-> FALSE, sym |-> RawAt, nsym |-> 1, names |-> <<<<47>>, TextName>>]}

\* a Rich stub under the key 0x12345678: "DanS" at 0x80, four entries from
\* 0x90 on, and over them "Rich" with the key at every offset of r.at and
\* "Rich" with another key at every offset of r.bad; no NT headers
RichKey == <<4660, 22136>>
RECURSIVE RichMarks(_, _)
RichMarks(ps, key) ==
    IF ps = <<>> THEN PutD(RichStart, DXor(DanSSign, RichKey))
    ELSE PutD(ps[1], RichSign) @@ PutD(ps[1] + 4, key) @@ RichMarks(Tail(ps), key)
RECURSIVE RichStubEntries(_)
RichStubEntries(j) ==
    IF j = 0 THEN PutD(RichStart, DXor(DanSSign, RichKey))
    ELSE PutD(RichFirst + 8 * (j - 1), DXor(RichKey, <<6 + j, 8 + j>>))
         @@ PutD(RichFirst + 8 * (j - 1) + 4, DXor(RichKey, Num(2 + j)))
         @@ RichStubEntries(j - 1)
StubImage(r) ==
    FileK("stub", r, ImgSize,
          DosHdr(Num(r.lfanew)) @@ RichMarks(r.at, RichKey) @@ RichMarks(r.bad, DanSSign)
          @@ RichStubEntries(4))

StubShapes ==
    \* "Rich" after two entries, after none, inside the preamble; after three
    \* entries behind a "Rich" with the wrong key; twice
    {[lfanew |-> 256, at |-> a, bad |-> <<>>]
        : a \in {<<160>>, <<RichFirst>>, <<RichFirst - 8>>, <<152, 168>>}}
    \cup {[lfanew |-> 256, at |-> <<168>>, bad |-> <<152>>]}
    \* e_lfanew at 0x80, at the "Rich", right after it, two bytes into it,
    \* at the end of the file and four bytes before
    \cup {[lfanew |-> e, at |-> <<160>>, bad |-> <<>>]
             : e \in {RichStart, 160, 164, ImgSize, ImgSize - 4}}
    \cup {[lfanew |-> 150, at |-> <<148>>, bad |-> <<>>]}

HdrFiles ==
    {DirsImage(r) : r \in DirsShapes} \cup {NamesImage(r) : r \in NamesShapes}
    \cup {StubImage(r) : r \in StubShapes}

\* the caller's buffers of the header runs: no NT signature, and a whole image
HdrBuffers ==
    {File("nosig", ImgSize, DosHdr(Num(NtAt))),
     DirsImage([pe64 |-> FALSE, nrva |-> Num(2), cut |-> FALSE])}

NextHdr ==
    \/ \E f \in HdrFiles : LoadPeFile(f)
    \/ \E b \in HdrBuffers : LoadPeSpan(b)
    \/ Clear

SpecHdr == Init /\ [][NextHdr]_vars

\* a load of the Model's own view that found the NT headers and returned
HdrLoaded == OnView /\ ~crashed /\ m_fLoaded /\ m_stFileInfo["HasNTHdr"]

\* the headers as the view holds them: the WORD at offset o, the counts,
\* directory i, and section header i with its fields
ViewW(o) == MemByte(m_ptr, o) + W8 * MemByte(m_ptr, o + 1)
NtOff == Small(m_rec.nt.dwOffset)
ViewNumRva ==
    ViewD(NtOff + (IF m_stFileInfo["IsPE64"] THEN OffNumRvaAndSizes64 ELSE OffNumRvaAndSizes32))
ViewDirAt(i) ==
    NtOff + (IF m_stFileInfo["IsPE64"] THEN OffDataDirectory64 ELSE OffDataDirectory32) + 8 * i
ViewSecAt(i) ==
    NtOff + OffOptionalHeader + ViewW(NtOff + OffSizeOfOptHeader) + SizeofSectionHeader * i
ViewSecName(i) == [k \in 1 .. 8 |-> MemByte(m_ptr, ViewSecAt(i) + k - 1)]
ViewSecVA(i) == ViewD(ViewSecAt(i) + OffSecVirtualAddress)
ViewSecVS(i) == ViewD(ViewSecAt(i) + OffSecVirtualSize)

\* the section headers below NumberOfSections that lie inside the file
ViewSecs ==
    {i \in 0 .. ViewW(NtOff + OffNumberOfSections) - 1 :
        ViewSecAt(i) + SizeofSectionHeader <= m_ptr.size}

\* those whose section contains RVA r: VirtualAddress <= r < VirtualAddress
\* + VirtualSize
ViewHolders(r) ==
    {i \in ViewSecs : BLe(ViewSecVA(i), r) /\ BLt(r, BAdd(ViewSecVA(i), ViewSecVS(i)))}

\* the headers GetSecHdrFromRVA accepts for r: ending below the end of the
\* file, the end of the section a DWORD sum
CodedHolders(r) ==
    {i \in ViewSecs :
        /\ ViewSecAt(i) + SizeofSectionHeader < m_ptr.size
        /\ BLe(ViewSecVA(i), r) /\ BLt(r, DAdd(ViewSecVA(i), ViewSecVS(i)))}

\* the name of the first section of hs, none when hs is empty
FirstName(hs) ==
    IF hs = {} THEN <<>> ELSE ViewSecName(CHOOSE i \in hs : \A k \in hs : i <= k)

\* the data directories recorded are the first min(NumberOfRvaAndSizes, 15)
\* of the optional header, in order, none (and no record) when that is 0,
\* each with the name of the section Holding(rva), none for Security
DataDirsAre(Holding(_)) ==
    LET n == IF BLt(Num(MaxDataDirs), ViewNumRva) THEN MaxDataDirs ELSE Small(ViewNumRva)
    IN  /\ m_stFileInfo["HasDataDirs"] <=> n # 0
        /\ Len(m_rec.dataDirs) = n
        /\ \A i \in DOMAIN m_rec.dataDirs :
              LET d == m_rec.dataDirs[i]
              IN  /\ d.VirtualAddress = ViewD(ViewDirAt(i - 1))
                  /\ d.Size = ViewD(ViewDirAt(i - 1) + 4)
                  /\ d.SecName = IF i - 1 = IMAGE_DIRECTORY_ENTRY_SECURITY THEN <<>>
                                 ELSE FirstName(Holding(d.VirtualAddress))

\* C17: data_dirs() holds exactly min(NumberOfRvaAndSizes, 15) entries in
\* index order, and is absent when that number is 0; the section name of an
\* entry is the raw 8-byte name of the section containing its RVA, empty
\* when no section contains it, and always empty for the Security entry.
C17_DataDirs == HdrLoaded => DataDirsAre(ViewHolders)

\* the same with the sections as GetSecHdrFromRVA finds them
C17_AsCoded == (HdrLoaded /\ ~oobRead) => DataDirsAre(CodedHolders)

\* the decimal number after the '/' of name: its digits up to the first NUL
\* or the end of the 8 bytes; -1 when they are not digits, or none
SlashNumber(name) ==
    LET ds == UpToNul(Tail(name))
        RECURSIVE Val(_, _)
        Val(k, acc) == IF k > Len(ds) THEN acc ELSE Val(k + 1, 10 * acc + ds[k] - 48)
    IN  IF name[1] = 47 /\ ds # <<>> /\ \A k \in DOMAIN ds : IsDigit(ds[k])
        THEN Val(1, 0) ELSE 0 - 1

\* the string from offset o of the view up to a NUL, or the end of the view
ViewCStr(o) == UpToNul([k \in 1 .. m_ptr.size - o |-> MemByte(m_ptr, o + k - 1)])

\* where the long name number n is: SymbolTable + NumberOfSymbols * 18 + n
LongNameAt(n) ==
    BAdd(BAdd(ViewD(NtOff + OffSymbolTable),
              BMulN(ViewD(NtOff + OffNumberOfSymbols), SizeofSymbol)), Num(n))

\* name is the resolved name of a header with raw name raw: the string of
\* the string table for "/n" (when that lies in the file), and raw cut at
\* its first NUL otherwise
IsResolved(name, raw) ==
    IF SlashNumber(raw) >= 0
    THEN BLt(LongNameAt(SlashNumber(raw)), Num(m_ptr.size))
            => name = ViewCStr(Small(LongNameAt(SlashNumber(raw))))
    ELSE name = UpToNul(raw)

\* the sections recorded are the headers hs of the view, in table order,
\* each with its raw name and a name that Resolves(name, raw)
SectionsAre(hs, Resolves(_, _)) ==
    /\ Len(m_rec.secs) = Cardinality(hs)
    /\ \A i \in hs :
          LET k == Cardinality({j \in hs : j < i}) + 1
          IN  k <= Len(m_rec.secs)
                 => /\ m_rec.secs[k].dwOffset = Num(ViewSecAt(i))
                    /\ m_rec.secs[k].Name = ViewSecName(i)
                    /\ Resolves(m_rec.secs[k].SectionName, ViewSecName(i))

\* C18: every section header below NumberOfSections that lies inside the
\* file yields one SectionHeader entry, in table order, with the raw 8-byte
\* Name unchanged and a resolved name that is the NUL-terminated string at
\* SymbolTable + NumberOfSymbols * 18 + n when Name is '/' followed by a
\* decimal integer n, and Name cut at its first NUL byte, if any, otherwise.
C18_SectionNames == HdrLoaded => SectionsAre(ViewSecs, IsResolved)

\* as coded: a header that ends with the file is not read, a header whose
\* name is a '/' and no number is passed over, and a name is cut at its
\* first NUL only when its last byte is NUL
CodedSecs ==
    {i \in ViewSecs :
        /\ ViewSecAt(i) + SizeofSectionHeader < m_ptr.size
        /\ (ViewSecName(i)[1] = 47 => SlashNumber(ViewSecName(i)) >= 0)}
IsResolvedAsCoded(name, raw) ==
    IF SlashNumber(raw) >= 0
    THEN IF BLt(LongNameAt(SlashNumber(raw)), Num(m_ptr.size))
         THEN name = ViewCStr(Small(LongNameAt(SlashNumber(raw))))
         ELSE name = <<>>
    ELSE name = (IF raw[8] = 0 THEN UpToNul(raw) ELSE raw)
C18_AsCoded == (HdrLoaded /\ ~oobRead) => SectionsAre(CodedSecs, IsResolvedAsCoded)

\* a load of the Model's own view that returned with the view loaded
StubLoaded == OnView /\ ~crashed /\ m_fLoaded

\* the DWORD-aligned offsets p from 0x90 to below end that hold "Rich",
\* DWORD[0x80] xor DWORD[p + 4] being "DanS"
RichMarksAt(end) ==
    {p \in RichFirst .. end - 1 :
        /\ p % 4 = 0
        /\ ViewD(p) = RichSign
        /\ DXor(ViewD(RichStart), ViewD(p + 4)) = DanSSign}

\* 0x80 < e_lfanew < file size
LfanewInFile ==
    BLt(Num(RichStart), m_rec.dos.e_lfanew) /\ BLt(m_rec.dos.e_lfanew, Num(m_ptr.size))

\* has_rich_hdr is set iff ps is not empty, and rich() then holds the (p -
\* 0x90) / 8 entries before the lowest p of ps, atLeast or more, in stub
\* order, each decoded with the key DWORD[p + 4]: the id from word w (1 the
\* high, 2 the low) of the first DWORD, the version from the other, the
\* count from the second DWORD
RichHeaderIs(ps, atLeast, w) ==
    /\ m_stFileInfo["HasRichHdr"] <=> ps # {}
    /\ ps # {} =>
          LET p   == CHOOSE q \in ps : \A k \in ps : q <= k
              key == ViewD(p + 4)
          IN  /\ Len(m_rec.rich) = (p - RichFirst) \div 8
              /\ Len(m_rec.rich) >= atLeast
              /\ \A j \in DOMAIN m_rec.rich :
                    LET o  == RichFirst + 8 * (j - 1)
                        d0 == DXor(key, ViewD(o))
                    IN  /\ m_rec.rich[j].dwOffset = Num(o)
                        /\ m_rec.rich[j].wId = d0[w]
                        /\ m_rec.rich[j].wVersion = d0[3 - w]
                        /\ m_rec.rich[j].dwCount = DXor(key, ViewD(o + 4))

\* C20: has_rich_hdr is true iff 0x80 < e_lfanew < file size and some
\* DWORD-aligned offset p with 0x90 <= p < e_lfanew holds "Rich" while
\* DWORD[0x80] xor DWORD[p + 4] is "DanS"; rich() then holds exactly (p -
\* 0x90) / 8 entries for the lowest such p, at least one, in stub order,
\* entry j decoded with the key DWORD[p + 4]: the product id the low 16 bits
\* and the build id the high 16 bits of the first DWORD, the use count the
\* second DWORD.
C20_RichHeader ==
    StubLoaded
        => RichHeaderIs(IF LfanewInFile THEN RichMarksAt(Small(m_rec.dos.e_lfanew)) ELSE {},
                        1, 2)

\* as coded: the scan covers (e_lfanew - 0x80) / 4 whole DWORDs, "Rich" at
\* 0x90 gives a header of no entries, and the id is the high word
C20_AsCoded ==
    (StubLoaded /\ ~oobRead)
        => RichHeaderIs(IF LfanewInFile
                        THEN RichMarksAt(RichStart
                                 + 4 * ((Small(m_rec.dos.e_lfanew) - RichStart) \div 4))
                        ELSE {},
                        0, 1)

----------------------------------------------------------------------------
(* Relocation images.  The base relocation directory lies r.at bytes into   *)
(* the section: a block of r.size bytes with the slots r.slots, and after   *)
(* them the header of a block of 10 bytes with one slot.                    *)

RECURSIVE PutWs(_, _)
PutWs(o, ws) ==
    IF Len(ws) = 1 THEN PutW(o, ws[1]) ELSE PutW(o, ws[1]) @@ PutWs(o + 2, Tail(ws))

RelImage(r) ==
    LET o == RawAt + r.at
        e == o + SizeofBaseRelocation + 2 * Len(r.slots)
    IN  Image("rel", r, r.pe64, ImgSize, SecVA,
              DirEnt(NtAt, r.pe64, IMAGE_DIRECTORY_ENTRY_BASERELOC, BAdd(SecVA, Num(r.at)),
                     Num(64))
              @@ PutD(o, r.va) @@ PutD(o + 4, r.size)
              @@ (IF r.slots = <<>> THEN PutW(o, r.va[2])
                  ELSE PutWs(o + SizeofBaseRelocation, r.slots))
              @@ (IF r.two THEN PutD(e, <<0, 8192>>) @@ PutD(e + 4, Num(10))
                                @@ PutW(e + SizeofBaseRelocation, 12289)
                  ELSE PutW(e, 0)))

RelShape(pe64, at, va, size, slots, two) ==
    [pe64 |-> pe64, at |-> at, va |-> va, size |-> size, slots |-> slots, two |-> two]

\* slots: 0x3010 HIGHLOW, 0x4020 HIGHADJ, 0x0ABC and 0x4111 low fields,
\* 0xA030 DIR64
RelShapes ==
    \* HIGHADJ inside a block, twice in a row, in the last slot of a block
    \* (its low field is the first WORD of the next header)
    {RelShape(b, 0, SecVA, Num(SizeofBaseRelocation + 2 * Len(sl)), sl, TRUE)
        : b \in BOOLEAN,
          sl \in {<<12304, 16416, 2748, 41008>>, <<16416, 16657, 16416, 2748, 12304>>,
                  <<12304, 16416>>, <<12304, 41008>>}}
    \* at the end of the file: HIGHADJ in the last slot of the file, slots up
    \* to the end under a SizeOfBlock of 0xFFFFFFF0, a slot across the end
    \cup {RelShape(FALSE, ImgSize - RawAt - 12, SecVA, Num(16), <<12304, 16416>>, FALSE),
          RelShape(FALSE, ImgSize - RawAt - 14, SecVA, Num(16), <<12304, 12304, 16416>>, FALSE),
          RelShape(FALSE, ImgSize - RawAt - 12, SecVA, <<W16 - 1, W16 - 16>>,
                   <<16416, 2748>>, FALSE),
          RelShape(FALSE, ImgSize - RawAt - 9, SecVA, Num(16), <<>>, FALSE)}
    \* no block: VirtualAddress 0, SizeOfBlock 0, SizeOfBlock below the header
    \cup {RelShape(FALSE, 0, Zero, Num(12), <<12304, 16416>>, FALSE),
          RelShape(FALSE, 0, SecVA, Zero, <<12304, 16416>>, FALSE),
          RelShape(FALSE, 0, SecVA, Num(4), <<12304, 16416>>, FALSE)}

RelFiles == {RelImage(r) : r \in RelShapes}

\* the caller's buffers of the relocation runs: no NT signature, and a whole image
RelBuffers ==
    {File("nosig", ImgSize, DosHdr(Num(NtAt))),
     RelImage(RelShape(FALSE, 0, SecVA, Num(12), <<41008, 12304>>, FALSE))}

NextRel ==
    \/ \E f \in RelFiles : LoadPeFile(f)
    \/ \E b \in RelBuffers : LoadPeSpan(b)
    \/ Clear

SpecRel == Init /\ [][NextRel]_vars

\* the entries es from k on: one of type HIGHADJ is followed by an entry of
\* the same type for the slot 2 bytes on, and the next relocation starts
\* after that one
RECURSIVE PairedFrom(_, _)
PairedFrom(es, k) ==
    IF k > Len(es) THEN TRUE
    ELSE IF es[k].wRelocType # IMAGE_REL_BASED_HIGHADJ THEN PairedFrom(es, k + 1)
    ELSE /\ k + 1 <= Len(es)
         /\ es[k + 1].wRelocType = IMAGE_REL_BASED_HIGHADJ
         /\ es[k + 1].dwOffset = BAdd(es[k].dwOffset, Num(2))
         /\ PairedFrom(es, k + 2)

\* C19: in every recorded relocation block the entries of type HIGHADJ (4)
\* come in adjacent pairs, the decoded slot followed by the next 16-bit slot
\* recorded with the same type; their number is even and no block ends with
\* an unpaired HIGHADJ entry.
C19_HighAdjPairs ==
    \A b \in DOMAIN m_rec.relocs :
        LET es == m_rec.relocs[b].vecRelocs
        IN  /\ PairedFrom(es, 1)
            /\ Cardinality({k \in DOMAIN es :
                               es[k].wRelocType = IMAGE_REL_BASED_HIGHADJ}) % 2 = 0

\* a block recorded with a HIGHLOW entry, a HIGHADJ entry, its low field
\* 0x0ABC under type 4, and a DIR64 entry
C19_Witness ==
    /\ lastLoad.called /\ ~crashed /\ m_fLoaded /\ m_stFileInfo["HasReloc"]
    /\ \E b \in DOMAIN m_rec.relocs :
          LET es == m_rec.relocs[b].vecRelocs
          IN  /\ Len(es) = 4
              /\ es[1].wRelocType = 3
              /\ es[2].wRelocType = IMAGE_REL_BASED_HIGHADJ /\ es[2].wRelocOffset = 32
              /\ es[3].wRelocType = IMAGE_REL_BASED_HIGHADJ /\ es[3].wRelocOffset = 2748
              /\ es[4].wRelocType = 10

----------------------------------------------------------------------------
(* Table images: the directories that are walked record by record.         *)

\* the WIN_CERTIFICATE headers cs, each <<file offset, dwLength>>
RECURSIVE PutCerts(_)
PutCerts(cs) ==
    IF Len(cs) = 1 THEN PutD(cs[1][1], cs[1][2])
    ELSE PutD(cs[1][1], cs[1][2]) @@ PutCerts(Tail(cs))

\* a Security directory of r.size bytes at file offset r.at, with the
\* certificates r.certs
CertImage(r) ==
    Image("cert", r, FALSE, ImgSize, SecVA,
          DirEnt(NtAt, FALSE, IMAGE_DIRECTORY_ENTRY_SECURITY, Num(r.at), Num(r.size))
          @@ PutCerts(r.certs))

CertShape(at, size, certs) == [at |-> at, size |-> size, certs |-> certs]

CertShapes ==
    \* three certificates of 16, 13 and 16 bytes; one that ends with the file
    {CertShape(RawAt, 48, <<<<RawAt, Num(16)>>, <<RawAt + 16, Num(13)>>, <<RawAt + 32, Num(16)>>>>),
     CertShape(ImgSize - 16, 16, <<<<ImgSize - 16, Num(16)>>>>),
    \* a certificate behind one of dwLength 4
     CertShape(RawAt, 24, <<<<RawAt, Num(4)>>, <<RawAt + 8, Num(16)>>>>),
    \* dwLength 0xFFFFFFF0: 16 bytes back, where a certificate lies that
    \* ends with the file
     CertShape(RawAt, 16, <<<<RawAt, <<W16 - 1, W16 - 16>>>>,
                            <<RawAt - 16, Num(ImgSize - RawAt + 16)>>>>)}
    \* dwLength 0, 7, 8, and 0xFFFFFFF9, which rounds up to 0
    \cup {CertShape(RawAt, 16, <<<<RawAt, l>>>>) : l \in {Zero, Num(7), Num(8), <<W16 - 1, W16 - 7>>}}

\* a load that returned with the named directory found
TabLoaded(flag) == lastLoad.called /\ ~crashed /\ m_fLoaded /\ m_stFileInfo[flag]

\* dwLength rounded up to a multiple of 8
Align8(dwLength) == BAdd(dwLength, Num((8 - (dwLength[2] % 8)) % 8))

\* the certificates recorded start at the Security directory's VirtualAddress,
\* and each next one lies Align8(dwLength) bytes after the one before
CertChain ==
    /\ m_rec.security # <<>>
          => m_rec.security[1].dwOffset
                = m_rec.dataDirs[IMAGE_DIRECTORY_ENTRY_SECURITY + 1].VirtualAddress
    /\ \A k \in 1 .. Len(m_rec.security) - 1 :
          /\ m_rec.security[k + 1].dwOffset
                = BAdd(m_rec.security[k].dwOffset, Align8(m_rec.security[k].dwLength))
          /\ BLt(m_rec.security[k].dwOffset, m_rec.security[k + 1].dwOffset)

\* C21: the security walk starts at the file offset in the Security
\* directory's VirtualAddress, each next certificate recorded lies at the
\* offset of the one before plus its dwLength rounded up to a multiple of 8,
\* so the offsets strictly increase, and the walk ends for every dwLength,
\* those below 8 included.
C21_SecurityWalk ==
    /\ lastLoad.ret # "hang"
    /\ TabLoaded("HasSecurity") => CertChain

\* the same of the 64-bit build, where a pointer sum does not wrap at 2^32
C21_Win64 == win64 => (lastLoad.ret # "hang" /\ (TabLoaded("HasSecurity") => CertChain))

\* a bound-import table at the start of the section: the 8-byte records
\* r.recs, each <<TimeDateStamp, OffsetModuleName, NumberOfModuleForwarderRefs
\* or Reserved>>, a zero record after them, and the names "a" at +64, "b" at
\* +66, "c" at +68 and "x" at +72, +74, +76 and +80
RECURSIVE PutBound(_, _)
PutBound(o, recs) ==
    IF recs = <<>> THEN PutD(o, Zero)
    ELSE PutD(o, Num(recs[1][1])) @@ PutW(o + OffOffsetModuleName, recs[1][2])
         @@ PutW(o + OffNumberOfFwdRefs, recs[1][3])
         @@ PutBound(o + SizeofBoundDescriptor, Tail(recs))
BoundImage(r) ==
    Image("bound", r, r.pe64, ImgSize, SecVA,
          DirEnt(NtAt, r.pe64, IMAGE_DIRECTORY_ENTRY_BOUND_IMPORT, SecVA, Num(64))
          @@ PutBound(RawAt, r.recs)
          @@ PutB(RawAt + 64, 97) @@ PutB(RawAt + 66, 98) @@ PutB(RawAt + 68, 99)
          @@ PutB(RawAt + 72, 120) @@ PutB(RawAt + 74, 120) @@ PutB(RawAt + 76, 120)
          @@ PutB(RawAt + 80, 120))

BoundShapes ==
    \* one module; two modules; a module with one forwarder and a module
    \* after it; a module with two forwarders and a module after it; no module
    {[pe64 |-> b, recs |-> rs]
        : b \in BOOLEAN,
          rs \in {<<<<1, 64, 0>>>>,
                  <<<<1, 64, 0>>, <<2, 66, 0>>>>,
                  <<<<1, 64, 1>>, <<9, 66, 0>>, <<2, 68, 0>>>>,
                  <<<<1, 64, 2>>, <<9, 66, 0>>, <<8, 68, 0>>, <<2, 66, 0>>>>,
                  <<>>}}

\* a delay-import table at the start of the section: one descriptor and a
\* zero one; the dll name "d" at +64; the name array of r.n ordinal thunks at
\* +96 and, where r.has names them, the address array at +160, the bound one
\* at +224 and the unload one at +288, their thunks 0x100 + k, 0x200 + k and
\* 0x300 + k; r.iat is where the address array is put, its first thunk alone
\* when that is the end of the file
DelayOrdinal(pe64, k) ==
    IF pe64 THEN <<Num(k), <<W16 \div 2, 0>>>> ELSE <<<<W16 \div 2, k>>, Zero>>
DelayImage(r) ==
    LET Rva(o) == BAdd(SecVA, Num(o))
        Arr(b) == [k \in 1 .. r.n |-> <<Num(b + k), Zero>>]
    IN  Image("delay", r, r.pe64, ImgSize, SecVA,
              DirEnt(NtAt, r.pe64, IMAGE_DIRECTORY_ENTRY_DELAY_IMPORT, SecVA, Num(64))
              @@ PutD(RawAt + OffDllNameRVA, Rva(64))
              @@ PutD(RawAt + OffDelayINT, Rva(96))
              @@ PutD(RawAt + OffDelayIAT, IF "iat" \in r.has THEN Rva(r.iat) ELSE Zero)
              @@ PutD(RawAt + OffDelayBoundIAT, IF "bound" \in r.has THEN Rva(224) ELSE Zero)
              @@ PutD(RawAt + OffDelayUnload, IF "unload" \in r.has THEN Rva(288) ELSE Zero)
              @@ PutB(RawAt + 64, 100)
              @@ PutThunks(RawAt + 96, r.pe64, [k \in 1 .. r.n |-> DelayOrdinal(r.pe64, k)])
              @@ (IF "iat" \notin r.has THEN <<>>
                  ELSE IF r.iat # 160 THEN PutD(RawAt + r.iat, Num(257))
                  ELSE PutThunks(RawAt + r.iat, r.pe64, Arr(256)))
              @@ (IF "bound" \in r.has THEN PutThunks(RawAt + 224, r.pe64, Arr(512)) ELSE <<>>)
              @@ (IF "unload" \in r.has THEN PutThunks(RawAt + 288, r.pe64, Arr(768)) ELSE <<>>))

DelayShapes ==
    \* one and two functions, with all, one and none of the parallel arrays
    {[pe64 |-> b, n |-> n, has |-> h, iat |-> 160]
        : b \in BOOLEAN, n \in 1 .. 2, h \in {{"iat", "bound", "unload"}, {"iat"}, {"bound"}, {}}}
    \* the address array in the last bytes of the file
    \cup {[pe64 |-> b, n |-> 2, has |-> {"iat"},
           iat |-> ImgSize - RawAt - (IF b THEN SizeofThunk64 ELSE SizeofThunk32)] : b \in BOOLEAN}

\* the table as the format lays it out, from offset o of the view on: the
\* modules up to a zero TimeDateStamp, each followed by its forwarder refs,
\* every name the string at t + OffsetModuleName, t the offset of the table
ViewBoundRec(o, t) ==
    [dwOffset |-> Num(o), TimeDateStamp |-> ViewD(o),
     name |-> ViewStr(t + ViewW(o + OffOffsetModuleName))]
RECURSIVE ViewBound(_, _)
ViewBound(o, t) ==
    IF o + SizeofBoundDescriptor > m_ptr.size \/ ViewD(o) = Zero THEN <<>>
    ELSE <<[desc |-> ViewBoundRec(o, t),
            fwds |-> [i \in 1 .. ViewW(o + OffNumberOfFwdRefs)
                         |-> ViewBoundRec(o + SizeofBoundDescriptor * i, t)]]>>
         \o ViewBound(o + SizeofBoundDescriptor * (1 + ViewW(o + OffNumberOfFwdRefs)), t)

\* the table as recorded, in the same form
BoundRecorded ==
    [k \in DOMAIN m_rec.boundImp |->
        [desc |-> [dwOffset |-> m_rec.boundImp[k].dwOffset,
                   TimeDateStamp |-> m_rec.boundImp[k].TimeDateStamp,
                   name |-> m_rec.boundImp[k].strBoundName],
         fwds |-> [i \in DOMAIN m_rec.boundImp[k].vecBoundForwarders |->
                      [dwOffset |-> m_rec.boundImp[k].vecBoundForwarders[i].dwOffset,
                       TimeDateStamp |-> m_rec.boundImp[k].vecBoundForwarders[i].TimeDateStamp,
                       name |-> m_rec.boundImp[k].vecBoundForwarders[i].strBoundForwarderName]]]]

BoundRva == m_rec.dataDirs[IMAGE_DIRECTORY_ENTRY_BOUND_IMPORT + 1].VirtualAddress

\* C22: for every bound-import descriptor, walked until TimeDateStamp is 0,
\* and each of its NumberOfModuleForwarderRefs forwarder refs, the name
\* recorded is the NUL-terminated string at the file offset of the first
\* descriptor of the table plus the record's own OffsetModuleName, and the
\* descriptor recorded for a module is the module's own descriptor, however
\* many forwarder refs it has.
C22_BoundImportNames ==
    (OnView /\ TabLoaded("HasBoundImp"))
        => \A t \in ResOffsets(BoundRva) : BoundRecorded = ViewBound(Small(t), Small(t))

\* the same of the tables it holds for as coded: those of one module with
\* no forwarder ref
C22_OneModule ==
    (OnView /\ TabLoaded("HasBoundImp") /\ ~oobRead)
        => \A t \in ResOffsets(BoundRva) :
              (Len(ViewBound(Small(t), Small(t))) <= 1
               /\ \A k \in DOMAIN ViewBound(Small(t), Small(t)) :
                     ViewBound(Small(t), Small(t))[k].fwds = <<>>)
                 => BoundRecorded = ViewBound(Small(t), Small(t))

DelayLoaded == OnView /\ TabLoaded("HasDelayImp")

\* the positions before the zero thunk of the array at offset o of the view
RECURSIVE ViewThunkLen(_, _)
ViewThunkLen(o, k) ==
    IF o + ThunkWidth * (k + 1) > m_ptr.size \/ ViewThunk(o + ThunkWidth * k) = ZeroThunk
    THEN k ELSE ViewThunkLen(o, k + 1)

\* t is thunk i of the array at rva, the zeroed thunk when rva does not resolve
IsThunkOf(t, rva, i) ==
    IF ResOffsets(rva) = {} THEN t = ZeroThunk
    ELSE \A o \in ResOffsets(rva) : t = ViewThunk(Small(o) + ThunkWidth * (i - 1))

\* the functions of module m are the thunks of its arrays, each member read
\* from the array Of(m, member) names
DelayFuncsAre(m, Of(_, _)) ==
    \A o \in ResOffsets(m.ImportNameTableRVA) : \A i \in 1 .. ViewThunkLen(Small(o), 0) :
        /\ i <= Len(m.vecDelayImpFunc)
        /\ \A f \in {"ImportNameTable", "ImportAddressTable",
                     "BoundImportAddressTable", "UnloadInformationTable"} :
              IsThunkOf(m.vecDelayImpFunc[i].thunk[f], Of(m, f), i)

DelayRvaOf(m, f) ==
    CASE f = "ImportNameTable"         -> m.ImportNameTableRVA
      [] f = "ImportAddressTable"      -> m.ImportAddressTableRVA
      [] f = "BoundImportAddressTable" -> m.BoundImportAddressTableRVA
      [] f = "UnloadInformationTable"  -> m.UnloadInformationTableRVA

\* the arrays as the members are given them: the name array to
\* ImportAddressTable and the address array to ImportNameTable
DelayRvaAsCoded(m, f) ==
    CASE f = "ImportNameTable"         -> m.ImportAddressTableRVA
      [] f = "ImportAddressTable"      -> m.ImportNameTableRVA
      [] f = "BoundImportAddressTable" -> m.BoundImportAddressTableRVA
      [] f = "UnloadInformationTable"  -> m.UnloadInformationTableRVA

\* C23: for every delay-import descriptor and every position i before the
\* zero terminator of its ImportNameTable, the function recorded holds, field
\* by field, thunk i of ImportNameTable, ImportAddressTable,
\* BoundImportAddressTable and UnloadInformationTable, a zeroed thunk for
\* each of them whose RVA does not resolve.
C23_DelayThunks ==
    DelayLoaded
        => \A k \in DOMAIN m_rec.delayImp : DelayFuncsAre(m_rec.delayImp[k], DelayRvaOf)

\* as coded: the name and the address member hold each other's thunk, in
\* the loads that read nothing outside the buffer
C23_AsCoded ==
    (DelayLoaded /\ ~oobRead)
        => \A k \in DOMAIN m_rec.delayImp :
              \A o \in ResOffsets(m_rec.delayImp[k].ImportNameTableRVA), i \in DOMAIN m_rec.delayImp[k].vecDelayImpFunc :
                 /\ i <= ViewThunkLen(Small(o), 0)
                 /\ \A f \in {"ImportNameTable", "ImportAddressTable",
                              "BoundImportAddressTable", "UnloadInformationTable"} :
                       IsThunkOf(m_rec.delayImp[k].vecDelayImpFunc[i].thunk[f],
                                 DelayRvaAsCoded(m_rec.delayImp[k], f), i)

\* a TLS directory at the start of the section.  r gives ImageBase and
\* AddressOfCallBacks (ULONGLONGs, the low DWORD alone in PE32), and the
\* DWORDs r.cbs laid out r.at bytes into the section
RECURSIVE PutRaw(_, _)
PutRaw(o, ds) == IF Len(ds) = 1 THEN PutD(o, ds[1]) ELSE PutD(o, ds[1]) @@ PutRaw(o + 4, Tail(ds))
TlsImage(r) ==
    Image("tls", r, r.pe64, ImgSize, SecVA,
          DirEnt(NtAt, r.pe64, IMAGE_DIRECTORY_ENTRY_TLS, SecVA, Num(40))
          @@ (IF r.pe64
              THEN PutD(NtAt + OffOptionalHeader + OffImageBase64, r.base.lo)
                   @@ PutD(NtAt + OffOptionalHeader + OffImageBase64 + 4, r.base.hi)
                   @@ PutD(RawAt + OffTlsCallBacks64, r.cb.lo)
                   @@ PutD(RawAt + OffTlsCallBacks64 + 4, r.cb.hi)
              ELSE PutD(NtAt + OffOptionalHeader + OffImageBase32, r.base.lo)
                   @@ PutD(RawAt + OffTlsCallBacks32, r.cb.lo))
          @@ (IF r.cbs = <<>> THEN <<>> ELSE PutRaw(RawAt + r.at, r.cbs)))

TlsBase == <<64, 0>>       \* ImageBase 0x400000
TlsShapes ==
    \* callbacks 64 bytes into the section: two and a zero, none, and one
    \* where ImageBase is 0x1FFFFF000 and AddressOfCallBacks 0x200000040
    {[pe64 |-> b, base |-> [lo |-> TlsBase, hi |-> Zero],
      cb |-> [lo |-> BAdd(TlsBase, BAdd(SecVA, Num(64))), hi |-> Zero],
      at |-> 64, cbs |-> c]
        : b \in BOOLEAN, c \in {<<BAdd(TlsBase, SecVA), BAdd(TlsBase, Num(4352))>>, <<>>}}
    \cup {[pe64 |-> TRUE, base |-> [lo |-> <<W16 - 1, W16 - 4096>>, hi |-> Num(1)],
           cb |-> [lo |-> Num(64), hi |-> Num(2)],
           at |-> 64, cbs |-> <<Num(7)>>]}
    \* the last two DWORDs of the file, neither of them zero
    \cup {[pe64 |-> b, base |-> [lo |-> TlsBase, hi |-> Zero],
           cb |-> [lo |-> BAdd(TlsBase, BAdd(SecVA, Num(ImgSize - RawAt - 8))), hi |-> Zero],
           at |-> ImgSize - RawAt - 8, cbs |-> <<Num(5), Num(6)>>] : b \in BOOLEAN}
    \* AddressOfCallBacks below ImageBase, and no AddressOfCallBacks
    \cup {[pe64 |-> b, base |-> [lo |-> TlsBase, hi |-> Zero],
           cb |-> [lo |-> c, hi |-> Zero], at |-> 64, cbs |-> <<Num(5)>>]
             : b \in BOOLEAN, c \in {BAdd(SecVA, Num(64)), Zero}}

TlsLoaded == OnView /\ TabLoaded("HasTLS")

\* the DWORDs of the view from offset o up to the first zero one, and
\* whether the file ended before it
RECURSIVE ViewDwords(_)
ViewDwords(o) ==
    IF o + 4 > m_ptr.size THEN [vec |-> <<>>, eof |-> TRUE]
    ELSE IF ViewD(o) = Zero THEN [vec |-> <<>>, eof |-> FALSE]
    ELSE [vec |-> <<ViewD(o)>> \o ViewDwords(o + 4).vec, eof |-> ViewDwords(o + 4).eof]

\* AddressOfCallBacks - ImageBase, of the view
ViewCallBacksRva ==
    LET o == Small(m_rec.tls.dwOffset)
        Q(a, wide) == [lo |-> ViewD(a), hi |-> IF wide THEN ViewD(a + 4) ELSE Zero]
    IN  IF m_stFileInfo["IsPE32"]
        THEN QSub(Q(o + OffTlsCallBacks32, FALSE),
                  Q(NtOff + OffOptionalHeader + OffImageBase32, FALSE))
        ELSE QSub(Q(o + OffTlsCallBacks64, TRUE),
                  Q(NtOff + OffOptionalHeader + OffImageBase64, TRUE))

\* the callbacks recorded are Of(the DWORDs at the place the RVA resolves to)
TlsCallbacksAre(Of(_)) ==
    /\ (ViewCallBacksRva.hi # Zero \/ ResOffsets(ViewCallBacksRva.lo) = {})
          => m_rec.tls.vecTLSCallbacks = <<>>
    /\ ViewCallBacksRva.hi = Zero
          => \A o \in ResOffsets(ViewCallBacksRva.lo) :
                Small(o) + 4 <= m_ptr.size
                   => m_rec.tls.vecTLSCallbacks = Of(ViewDwords(Small(o)))

ReadSoFar(ds) == ds.vec
NoneAtEof(ds) == IF ds.eof THEN <<>> ELSE ds.vec

TabFiles == {CertImage(r) : r \in CertShapes}

\* the caller's buffers of the table runs: no NT signature, and a whole image
TabBuffers ==
    {File("nosig", ImgSize, DosHdr(Num(NtAt))),
     CertImage(CertShape(RawAt, 16, <<<<RawAt, Num(12)>>>>))}

NextTab ==
    \/ \E f \in TabFiles : LoadPeFile(f)
    \/ \E b \in TabBuffers : LoadPeSpan(b)
    \/ Clear

SpecTab == Init /\ [][NextTab]_vars

\* the same calls over the images with a bound import table
BoundFiles == {BoundImage(r) : r \in BoundShapes}

NextBound ==
    \/ \E f \in BoundFiles : LoadPeFile(f)
    \/ \E b \in TabBuffers : LoadPeSpan(b)
    \/ Clear

SpecBound == Init /\ [][NextBound]_vars

\* over the images with a delay import table
DelayFiles == {DelayImage(r) : r \in DelayShapes}

NextDelay ==
    \/ \E f \in DelayFiles : LoadPeFile(f)
    \/ \E b \in TabBuffers : LoadPeSpan(b)
    \/ Clear

SpecDelay == Init /\ [][NextDelay]_vars

\* over the images with a TLS directory
TlsFiles == {TlsImage(r) : r \in TlsShapes}

NextTls ==
    \/ \E f \in TlsFiles : LoadPeFile(f)
    \/ \E b \in TabBuffers : LoadPeSpan(b)
    \/ Clear

SpecTls == Init /\ [][NextTls]_vars

----------------------------------------------------------------------------
(* Resource trees to flatten.  The section holds the root directory        *)
(* (entries at +16 and +24), a level-2 directory at +32 (entries at +48    *)
(* and +56), a level-3 directory at +64 (entries at +80 and +88), four     *)
(* data entries from +96 on, the names "A" at +160 and "B" at +168, and    *)
(* the raw data, two bytes each, from +192 on.                             *)

FlatStrA == <<W16 \div 2, 160>>       \* NameIsString, the name "A"
FlatStrB == <<W16 \div 2, 168>>       \* NameIsString, the name "B"

\* r gives the names of the first root entry, of the two level-2 entries and
\* of the two level-3 entries, and OffsetToData of the first root entry and
\* of the first level-2 entry
FlatImage(r) ==
    LET DataEnt(k) == PutD(RawAt + 96 + 16 * k, BAdd(SecVA, Num(192 + 2 * k)))
                      @@ PutD(RawAt + 100 + 16 * k, Num(2))
    IN  Image("flat", r, FALSE, ImgSize, SecVA,
              DirEnt(NtAt, FALSE, IMAGE_DIRECTORY_ENTRY_RESOURCE, SecVA, Num(256))
              @@ PutW(RawAt + OffResIdEntries, 2)
              @@ PutD(RawAt + 16, r.t) @@ PutD(RawAt + 20, r.l1)
              @@ PutD(RawAt + 24, Num(5)) @@ PutD(RawAt + 28, Num(96))
              @@ PutW(RawAt + 32 + OffResIdEntries, 2)
              @@ PutD(RawAt + 48, r.n[1]) @@ PutD(RawAt + 52, r.l2)
              @@ PutD(RawAt + 56, r.n[2]) @@ PutD(RawAt + 60, Num(112))
              @@ PutW(RawAt + 64 + OffResIdEntries, 2)
              @@ PutD(RawAt + 80, r.g[1]) @@ PutD(RawAt + 84, Num(128))
              @@ PutD(RawAt + 88, r.g[2]) @@ PutD(RawAt + 92, Num(144))
              @@ DataEnt(0) @@ DataEnt(1) @@ DataEnt(2) @@ DataEnt(3)
              @@ PutW(RawAt + 160, 1) @@ PutW(RawAt + 162, 65)
              @@ PutW(RawAt + 168, 1) @@ PutW(RawAt + 170, 66)
              @@ PutS(RawAt + 192, <<10, 11, 20, 21, 30, 31, 40, 41>>))

FlatShapes ==
    \* three levels, every entry named by an id or by a string
    {[t |-> Num(3), l1 |-> ResDir(32), n |-> n, l2 |-> ResDir(64), g |-> g]
        : n \in {<<Num(7), Num(8)>>, <<FlatStrA, Num(8)>>, <<Num(7), FlatStrB>>},
          g \in {<<Num(1033), Num(1034)>>, <<FlatStrA, Num(1034)>>, <<Num(1033), FlatStrB>>}}
    \cup {[t |-> FlatStrA, l1 |-> ResDir(32), n |-> <<Num(7), Num(8)>>, l2 |-> ResDir(64),
           g |-> <<Num(1033), Num(1034)>>]}
    \* the first level-2 entry a leaf; the first root entry a leaf
    \cup {[t |-> Num(3), l1 |-> l[1], n |-> <<FlatStrA, Num(8)>>, l2 |-> l[2],
           g |-> <<Num(1033), Num(1034)>>]
             : l \in {<<ResDir(32), Num(128)>>, <<Num(144), ResDir(64)>>}}

FlatFiles == {FlatImage(r) : r \in FlatShapes}

\* the caller's buffers of these runs: no NT signature, and a whole image
FlatBuffers ==
    {File("nosig", ImgSize, DosHdr(Num(NtAt))),
     FlatImage([t |-> Num(3), l1 |-> Num(144), n |-> <<Num(7), Num(8)>>, l2 |-> ResDir(64),
                g |-> <<Num(1033), Num(1034)>>])}

NextFlat ==
    \/ \E f \in FlatFiles : LoadPeFile(f)
    \/ \E b \in FlatBuffers : LoadPeSpan(b)
    \/ CallFlatResources
    \/ Clear

SpecFlat == Init /\ [][NextFlat]_vars

\* the sequences of a sequence of sequences, one after the other
RECURSIVE Cat(_)
Cat(ss) == IF ss = <<>> THEN <<>> ELSE ss[1] \o Cat(Tail(ss))

\* the leaves of the tree, each the path of its entries from the root on,
\* in depth-first order: a root entry that is no directory, a level-2 entry
\* that is no directory, every level-3 entry
LeafPaths(root) ==
    Cat([i \in DOMAIN root.ents |->
          IF ~DataIsDirectory(root.ents[i]) THEN <<<<i>>>>
          ELSE Cat([j \in DOMAIN root.ents[i].child.ents |->
                     IF ~DataIsDirectory(root.ents[i].child.ents[j]) THEN <<<<i, j>>>>
                     ELSE [k \in DOMAIN root.ents[i].child.ents[j].child.ents |-> <<i, j, k>>]])])

\* the entry of level lvl on the path p
PathEntry(root, p, lvl) ==
    IF lvl = 1 THEN root.ents[p[1]]
    ELSE IF lvl = 2 THEN root.ents[p[1]].child.ents[p[2]]
    ELSE root.ents[p[1]].child.ents[p[2]].child.ents[p[3]]

FlatCalled == ~crashed /\ flat # <<>>

\* C25: FlatResources returns one row for every leaf of the tree (a root
\* entry that is no directory, a level-2 entry that is no directory, every
\* level-3 entry), in depth-first order, each with the raw bytes of its
\* leaf; a second call returns the same rows; the tree is left as it was.
C25_FlatRows ==
    /\ [](FlatCalled
            => \A c \in DOMAIN flat :
                  /\ Len(flat[c]) = Len(LeafPaths(ResRoot))
                  /\ \A r \in DOMAIN flat[c] :
                        flat[c][r].Data
                           = PathEntry(ResRoot, LeafPaths(ResRoot)[r],
                                       Len(LeafPaths(ResRoot)[r])).raw
                  /\ flat[c] = flat[1])
    /\ [][(flat' # flat /\ flat' # <<>>) => m_rec' = m_rec]_vars

\* two calls have returned the four rows of a tree with a leaf at every level
C25_Witness ==
    /\ FlatCalled /\ Len(flat) = 2 /\ Len(flat[2]) = 4
    /\ {Len(LeafPaths(ResRoot)[r]) : r \in 1 .. 4} = {1, 2, 3}
    /\ flat[2][1].Data = <<30, 31>> /\ flat[2][4].Data = <<10, 11>>

\* the string and the id a row has of entry e, and of no entry
OwnName(e) ==
    IF NameIsString(e) THEN [str |-> e.wstrName, id |-> 0] ELSE [str |-> <<>>, id |-> e.Name[2]]
NoName == [str |-> <<>>, id |-> 0]
LevelName(root, p, lvl) == IF lvl <= Len(p) THEN OwnName(PathEntry(root, p, lvl)) ELSE NoName

\* C26: the type, name and language fields of a row, id or string, are those
\* of the root, level-2 and level-3 entry of its own leaf, nothing carried
\* over from a sibling visited before; a leaf at level 1 or 2 has the name
\* and language fields below its level empty.
C26_OwnFields ==
    FlatCalled
        => \A c \in DOMAIN flat : \A r \in DOMAIN flat[c] :
              /\ r <= Len(LeafPaths(ResRoot))
              /\ [str |-> flat[c][r].TypeStr, id |-> flat[c][r].TypeID]
                    = LevelName(ResRoot, LeafPaths(ResRoot)[r], 1)
              /\ [str |-> flat[c][r].NameStr, id |-> flat[c][r].NameID]
                    = LevelName(ResRoot, LeafPaths(ResRoot)[r], 2)
              /\ [str |-> flat[c][r].LangStr, id |-> flat[c][r].LangID]
                    = LevelName(ResRoot, LeafPaths(ResRoot)[r], 3)

\* the type fields are the root entry's own
C26_TypeOwn ==
    FlatCalled
        => \A c \in DOMAIN flat : \A r \in DOMAIN flat[c] :
              /\ r <= Len(LeafPaths(ResRoot))
              /\ [str |-> flat[c][r].TypeStr, id |-> flat[c][r].TypeID]
                    = LevelName(ResRoot, LeafPaths(ResRoot)[r], 1)

----------------------------------------------------------------------------
(* The NT headers and the end of the file.                                 *)

\* e_lfanew of the view, a LONG
ViewLfanew == Small(S32(ViewD(60)))

\* the NT-headers record of the variant the view holds at e_lfanew lies
\* inside the file, e_lfanew not negative
NtRecordInside ==
    /\ ViewLfanew >= 0
    /\ ViewLfanew + SizeofNtHeaders32 <= m_ptr.size
    /\ ViewW(ViewLfanew + OffOptionalHeader) = IMAGE_NT_OPTIONAL_HDR64_MAGIC
          => ViewLfanew + SizeofNtHeaders64 <= m_ptr.size

\* C27: NT parsing succeeds only if e_lfanew >= 0 and the whole NT-headers
\* record of the detected variant lies inside the file (IMAGE_NT_HEADERS32
\* for PE32, IMAGE_NT_HEADERS64 for PE32+); otherwise HasNTHdr stays false
\* and nothing is read outside the buffer.
C27_NtHeadersInside ==
    (OnView /\ lastLoad.buf.size >= SizeofDosHeader /\ ViewW(0) = IMAGE_DOS_SIGNATURE)
        => /\ (~crashed /\ m_stFileInfo["HasNTHdr"]) => NtRecordInside
           /\ ~NtRecordInside => (~oobRead /\ ~crashed /\ ~m_stFileInfo["HasNTHdr"])

\* the same of PE32 alone holds where e_lfanew is not negative: the record
\* of a PE32 image that was parsed lies inside the file
C27_Pe32Inside ==
    (OnView /\ ~crashed /\ m_stFileInfo["HasNTHdr"] /\ m_stFileInfo["IsPE32"] /\ ViewLfanew >= 0)
        => ViewLfanew + SizeofNtHeaders32 <= m_ptr.size

----------------------------------------------------------------------------
(* The two translations of an RVA.                                         *)

\* the Model after the load, as the directory parsers' RVAToPtr sees it
CxLoaded == Cx(win64, m_ptr, m_spnData, TRUE, 0)
StLoaded ==
    [fi |-> m_stFileInfo, nt32 |-> m_pNTHeader32, nt64 |-> m_pNTHeader64, rec |-> m_rec,
     oob |-> FALSE, hang |-> FALSE, ub |-> FALSE]

\* RVAToPtr and GetOffsetFromRVA agree on r: the one resolves it when the
\* other does, to the same file offset
Agree(p, o) ==
    /\ p = Zero => o = Zero
    /\ p # Zero => PtrToOffset(CxLoaded, p) = o

\* C28: for every section table and every RVA r, GetOffsetFromRVA(r) and
\* the RVAToPtr of the directory parsers agree: one resolves r iff the
\* other does, and to the same file offset, also when sections overlap,
\* when ParseSectionsHeaders skipped a section header, and when
\* PointerToRawData is above VirtualAddress.
C28_TranslationsAgree ==
    (OnView /\ ~crashed /\ m_fLoaded)
        => \A r \in Rvas : Agree(RVAToPtr(CxLoaded, StLoaded, r), GetOffsetFromRVA(r))

\* they agree on the x86 build where one section at most holds r and
\* every header was recorded
C28_OneHolder ==
    (OnView /\ ~crashed /\ m_fLoaded /\ ~win64 /\ Len(m_rec.secs) = m_rec.nt.NumberOfSections)
        => \A r \in Rvas :
              Cardinality(Holders(r)) <= 1
                 => Agree(RVAToPtr(CxLoaded, StLoaded, r), GetOffsetFromRVA(r))

----------------------------------------------------------------------------
(* The slots of a relocation block.                                        *)

RelLoaded == lastLoad.called /\ ~crashed /\ m_fLoaded /\ m_stFileInfo["HasReloc"]

\* (SizeOfBlock - 8) / 2, the slots of block b
BlockSlots(b) == BDivN(DSub(b.SizeOfBlock, Num(SizeofBaseRelocation)), 2)

\* C29: of a relocation block with SizeOfBlock >= 8 the parser reads only
\* the (SizeOfBlock - 8) / 2 slots that belong to it: the slots consumed,
\* one for an ordinary entry and two for a HIGHADJ entry, are never more,
\* wherever the HIGHADJ entries are in the block.
C29_SlotsOfTheBlock ==
    RelLoaded
        => \A k \in DOMAIN m_rec.relocs :
              LET b == m_rec.relocs[k]
              IN  ~BLt(b.SizeOfBlock, Num(SizeofBaseRelocation))
                     => /\ BLe(Num(Len(b.vecRelocs)), BlockSlots(b))
                        /\ \A e \in DOMAIN b.vecRelocs :
                              /\ BLe(BAdd(b.dwOffset, Num(SizeofBaseRelocation)),
                                     b.vecRelocs[e].dwOffset)
                              /\ BLe(BAdd(b.vecRelocs[e].dwOffset, Num(2)),
                                     BAdd(b.dwOffset, b.SizeOfBlock))

\* the same of the blocks whose last slot read is no HIGHADJ entry
C29_NoHighAdjLast ==
    RelLoaded
        => \A k \in DOMAIN m_rec.relocs :
              LET b == m_rec.relocs[k]
                  n == Len(b.vecRelocs)
              IN  (/\ ~BLt(b.SizeOfBlock, Num(SizeofBaseRelocation))
                   /\ n > 0
                   /\ ~(/\ b.vecRelocs[n].wRelocType = IMAGE_REL_BASED_HIGHADJ
                        /\ BLe(BAdd(b.dwOffset, b.SizeOfBlock), b.vecRelocs[n].dwOffset)))
                     => /\ BLe(Num(n), BlockSlots(b))
                        /\ \A e \in DOMAIN b.vecRelocs :
                              BLe(BAdd(b.vecRelocs[e].dwOffset, Num(2)),
                                  BAdd(b.dwOffset, b.SizeOfBlock))

----------------------------------------------------------------------------
(* A thunk array that does not resolve.                                    *)

MaxDescs == 3      \* the import descriptors looked at

ImportRva == m_rec.dataDirs[IMAGE_DIRECTORY_ENTRY_IMPORT + 1].VirtualAddress

\* descriptor k of the table at offset t of the view: its Name, and the RVA
\* of its thunk array
ViewImpName(t, k) == ViewD(t + SizeofImportDescriptor * (k - 1) + OffImpName)
ViewImpThunkRva(t, k) ==
    ImportThunkRva(ViewD(t + SizeofImportDescriptor * (k - 1)),
                   ViewD(t + SizeofImportDescriptor * (k - 1) + OffImpFirstThunk))

\* descriptor k is the first whose thunk array lies in no section
StopsAt(t, k) ==
    /\ t + SizeofImportDescriptor * k <= m_ptr.size
    /\ \A j \in 1 .. k : ViewImpName(t, j) # Zero
    /\ ViewImpThunkRva(t, k) # Zero /\ Holders(ViewImpThunkRva(t, k)) = {}
    /\ \A j \in 1 .. k - 1 :
          ViewImpThunkRva(t, j) = Zero \/ Holders(ViewImpThunkRva(t, j)) # {}

ImpParsed ==
    /\ OnView /\ ~crashed /\ m_fLoaded /\ m_stFileInfo["HasNTHdr"]
    /\ Len(m_rec.dataDirs) = MaxDataDirs

\* the import parse stopped at descriptor k of the table at t as Stopped
\* says, for every descriptor that is the first of an unresolvable array
ImportStops(Stopped(_, _)) ==
    \A t \in ResOffsets(ImportRva) : \A k \in 1 .. MaxDescs :
        StopsAt(Small(t), k) => Stopped(Small(t), k)

\* HasImport is set and GetImport gives the modules before descriptor k
StoppedWithModules(t, k) ==
    /\ m_stFileInfo["HasImport"]
    /\ GetImport # Null
    /\ Len(m_rec.import) = Cardinality({j \in 1 .. k - 1 : ViewImpThunkRva(t, j) # Zero})

\* C30: an import descriptor whose thunk array does not resolve ends the
\* import parse the same way in PE32 and in PE32+: HasImport is set and
\* GetImport gives the modules collected before it; and after a load no
\* import module is held while HasImport is false.
C30_UnresolvedThunkArray ==
    ImpParsed
        => /\ ImportStops(StoppedWithModules)
           /\ ~m_stFileInfo["HasImport"] => m_rec.import = <<>>

\* the same of PE32 images
C30_PE32 ==
    (ImpParsed /\ m_stFileInfo["IsPE32"])
        => /\ ImportStops(StoppedWithModules)
           /\ ~m_stFileInfo["HasImport"] => m_rec.import = <<>>

====
